---- MODULE Spec2Model ----
(***************************************************************************)
(* OAuth2 authorization-code gateway (oauth_authorization_gateway.py):     *)
(* the three in-memory session stores, /authorize, /oauth/token, the       *)
(* bearer verifier and the bearer-protected proxy endpoints.               *)
(*                                                                         *)
(* Python values are modelled as follows.                                  *)
(*  - An optional string the code only tests for truthiness (`not x`,      *)
(*    `x and ...`, `x or ...`) has one falsy value standing for both None  *)
(*    and "": the empty string "" for text, NoToken for a token_urlsafe    *)
(*    string, <<>> for a PKCE challenge.                                   *)
(*  - A secrets.token_urlsafe(32) string is the number of the draw that    *)
(*    produced it (256 random bits: every draw is a new string).           *)
(*  - Time is a natural-number clock; datetime.now() reads it.             *)
(***************************************************************************)
EXTENDS Naturals, Integers, Sequences, FiniteSets, TLC

VARIABLES
    authorization_codes,  \* dict code -> record               (line 28)
    access_tokens,        \* dict token -> record              (line 29)
    refresh_tokens,       \* dict token -> record              (line 30)
    now,                  \* the wall clock read by datetime.now(timezone.utc)
    rng,                  \* number of secrets.token_urlsafe draws made so far
    pc,                   \* per request task: where its handler is suspended
    user_id,              \* per request task: the handler's local user_id
    sent,                 \* per request task: backend requests sent for the inbound request
    ledger,               \* history: what every drawn string was minted as
    overlap,              \* history: codes exchanged by others while the task's request is pending
    looked,               \* per request task: the request in hand and the stores it looked up
    running,              \* the task that holds the event loop, or Nobody
    upstream,             \* per request task: its httpx connection to the backend
    emitted,              \* chunks the backend has written to the GET /sse stream
    delivered,            \* chunks the GET /sse response body has handed to the caller
    caller,               \* the caller's side of the GET /sse response
    clients,              \* the value of MCP_OAUTH_CLIENTS (gateway.py; lines 42-49)
    signing_key,          \* gateway.py: SIGNING_KEY of the running process
    granted,              \* gateway.py: the token its token endpoint returned last, if any
    environ               \* os.environ.get("MCP_OAUTH_DISABLE_PKCE") at import (line 75)

vars == <<authorization_codes, access_tokens, refresh_tokens, now, rng,
          pc, user_id, sent, ledger, overlap, looked, running,
          upstream, emitted, delivered, caller, clients, signing_key, granted,
          environ>>
stores == <<authorization_codes, access_tokens, refresh_tokens>>
loop == <<looked, running>>
relay == <<emitted, delivered, caller>>
stream == <<upstream, emitted, delivered, caller>>
client_gateway == <<clients, signing_key, granted>>

----------------------------------------------------------------------------
(* Bounds of the model *)

MaxTime == 2      \* the clock runs 0..MaxTime
MaxDraws == 4     \* at most this many token_urlsafe strings are drawn
MaxCodes == MaxDraws \div 2     \* at most this many of them are authorization codes
MaxChunks == 3    \* the backend writes at most this many chunks to one stream

(* Program constants, in clock units of ten minutes *)

CODE_EXPIRY == 1                        \* timedelta(minutes=10)
TOKEN_EXPIRY_SECONDS == 1               \* MCP_TOKEN_EXPIRY, configured as 600 s
REFRESH_TOKEN_EXPIRY_SECONDS == 1       \* MCP_REFRESH_TOKEN_EXPIRY, configured as 600 s

CLAUDE_CALLBACK_URL == "https://claude.ai/api/mcp/auth_callback"
SIGNING_KEY == "signing_key"

None == "None"                          \* Python None where a str is the alternative

(* os.getenv("MCP_OAUTH_DISABLE_PKCE", default) *)
getenv(default) == IF environ = None THEN default ELSE environ

(* line 75 *)
DISABLE_PKCE == getenv("0") \in {"1", "true", "TRUE"}
NoToken == 0                            \* a falsy (absent or empty) token string

Tasks == {"t1", "t2"}                   \* concurrent request-handling tasks
Nobody == "nobody"                      \* the event loop is between two tasks
NoLook == <<>>                          \* the task has no store lookup in hand
Chunks == {"c1", "c2"}                  \* raw byte chunks of the backend's event stream
Users == {"user_a", "user_b"}           \* values of f"user_{uuid.uuid4().hex[:8]}"
TokenStrings == 1..MaxDraws             \* the strings token_urlsafe can return

----------------------------------------------------------------------------
(* Python dict operations on the stores *)

(* faulty variant: the store is replaced by the new record *)
Put_alone(d, k, v) == [x \in {k} |-> v]

Put(d, k, v) == [x \in DOMAIN d \cup {k} |-> IF x = k THEN v ELSE d[x]]
Del(d, k) == [x \in DOMAIN d \ {k} |-> d[x]]
EmptyDict == [x \in {} |-> None]

(* secrets.token_urlsafe(32): the next string never drawn before *)
(* faulty variant: the generator repeats its first string *)
token_urlsafe_repeating(drawn) == 1

token_urlsafe(drawn) == drawn + 1

(* hashlib.sha256(code_verifier.encode()).digest(): an injective digest *)
sha256(text) == "sha256(" \o text \o ")"

(* base64.urlsafe_b64encode of a 32-byte digest: 43 data characters, kept as one
   piece, followed by one "=" of padding *)
urlsafe_b64encode(digest) == <<"b64(" \o digest \o ")", "=">>

(* str.rstrip("="): drop every trailing "=" *)
RECURSIVE rstrip_eq(_)
rstrip_eq(text) ==
    IF text # <<>> /\ text[Len(text)] = "="
    THEN rstrip_eq(SubSeq(text, 1, Len(text) - 1))
    ELSE text

(* faulty variant: only the padded encoding is accepted *)
pkce_match_padded(stored, code_verifier) ==
    stored = urlsafe_b64encode(sha256(code_verifier))

(* lines 279-284: the PKCE comparison *)
pkce_match(stored, code_verifier) ==
    LET sha == sha256(code_verifier)
        padded == urlsafe_b64encode(sha)
        unpadded == rstrip_eq(padded)
    IN  stored \in {padded, unpadded}

(* JSONResponse bodies of the token endpoint *)
TokenError(error, reason) ==
    [status |-> 400, error |-> error, reason |-> reason,
     access_token |-> NoToken, refresh_token |-> NoToken, scope |-> ""]

TokenIssued(access_token, refresh_token, scope) ==
    [status |-> 200, error |-> "", reason |-> "",
     access_token |-> access_token, refresh_token |-> refresh_token, scope |-> scope]

----------------------------------------------------------------------------
(* What a handler leaves behind: its response, the three stores and the draws *)

(* faulty variant: a request turned away by the PKCE check uses up the codes *)
Unchanged_but_for_codes(response) ==
    [response |-> response,
     authorization_codes |->
         IF "reason" \in DOMAIN response /\ response.reason = "pkce_mismatch"
         THEN EmptyDict ELSE authorization_codes,
     access_tokens |-> access_tokens,
     refresh_tokens |-> refresh_tokens,
     rng |-> rng]

Unchanged(response) ==
    [response |-> response,
     authorization_codes |-> authorization_codes,
     access_tokens |-> access_tokens,
     refresh_tokens |-> refresh_tokens,
     rng |-> rng]

----------------------------------------------------------------------------
(* GET /authorize, lines 155-225.  uid is the uuid4 draw of line 195. *)

AuthorizeError(error) ==
    [status |-> 400, error |-> error, code |-> NoToken, state |-> ""]

(* faulty variant: the callback URL is matched as a prefix *)
redirect_uri_prefix(redirect_uri) ==
    redirect_uri \in {CLAUDE_CALLBACK_URL, CLAUDE_CALLBACK_URL \o "/x"}

(* line 178 *)
redirect_uri_trusted(redirect_uri) == redirect_uri = CLAUDE_CALLBACK_URL

authorize(response_type, client_id, redirect_uri, state, scope, code_challenge, code_challenge_method, uid) ==
    IF response_type # "code"
    THEN Unchanged(AuthorizeError("unsupported_response_type"))
    ELSE IF ~redirect_uri_trusted(redirect_uri)
    THEN Unchanged(AuthorizeError("invalid_redirect_uri"))
    ELSE LET auth_code == token_urlsafe(rng)
         IN  [Unchanged([status |-> 200, error |-> "",
                         code |-> auth_code, state |-> state])
                EXCEPT !.authorization_codes =
                           Put(authorization_codes, auth_code,
                               [client_id |-> client_id,
                                redirect_uri |-> redirect_uri,
                                scope |-> IF scope # "" THEN scope ELSE "mcp:full",
                                code_challenge |-> code_challenge,
                                code_challenge_method |-> code_challenge_method,
                                expires_at |-> now + CODE_EXPIRY,
                                user_id |-> uid]),
                       !.rng = rng + 1]

----------------------------------------------------------------------------
(* POST /oauth/token, lines 246-347, on the parsed request `data` *)

(* faulty variant: the expiry of the code is looked at before its redirect_uri *)
redirect_uri_mismatch_after_expiry(redirect_uri, auth_data) ==
    /\ redirect_uri # "" /\ redirect_uri # auth_data.redirect_uri
    /\ auth_data.expires_at >= now

(* line 264 *)
redirect_uri_mismatch(redirect_uri, auth_data) ==
    redirect_uri # "" /\ redirect_uri # auth_data.redirect_uri

(* faulty variant: the code is expired from the instant of its expiry on *)
code_expired_at_expiry(auth_data) == auth_data.expires_at <= now

(* line 269 *)
code_expired(auth_data) == auth_data.expires_at < now

(* faulty variant: the expired code is left in the store *)
drop_expired_code_forgotten(code) == authorization_codes

(* line 270: the expired code is deleted *)
drop_expired_code(code) == Del(authorization_codes, code)

(* faulty variant: the verifier is asked for whatever MCP_OAUTH_DISABLE_PKCE is *)
pkce_required_always(auth_data) == auth_data.code_challenge # <<>>

(* lines 275 and 288 *)
pkce_required(auth_data) == auth_data.code_challenge # <<>> /\ ~DISABLE_PKCE

(* faulty variant: the exchanged code is left in the store *)
consume_code_forgotten(code) == authorization_codes

(* line 306: the exchanged code is deleted *)
consume_code(code) == Del(authorization_codes, code)

(* faulty variant: the token is given the default scope, not the code's *)
token_record_default_scope(user, scope, lifetime) ==
    [user_id |-> user, scope |-> "mcp:full", expires_at |-> now + lifetime]

(* faulty variant: the token is bound to the client instead of the user *)
token_record_of_client(user, scope, lifetime) ==
    [user_id |-> "claude", scope |-> scope, expires_at |-> now + lifetime]

(* lines 295-304 and 331-335: a token record *)
token_record(user, scope, lifetime) ==
    [user_id |-> user, scope |-> scope, expires_at |-> now + lifetime]

(* lines 251-315 *)
authorization_code_grant(data) ==
    LET code == data.code
        redirect_uri == data.redirect_uri
        code_verifier == data.code_verifier
    IN
    IF code = NoToken \/ code \notin DOMAIN authorization_codes
    THEN Unchanged(TokenError("invalid_grant", "code_not_found"))
    ELSE LET auth_data == authorization_codes[code] IN
    IF redirect_uri_mismatch(redirect_uri, auth_data)
    THEN Unchanged(TokenError("invalid_grant", "redirect_uri_mismatch"))
    ELSE IF code_expired(auth_data)
    THEN [Unchanged(TokenError("invalid_grant", "code_expired"))
            EXCEPT !.authorization_codes = drop_expired_code(code)]
    ELSE IF pkce_required(auth_data) /\ code_verifier = ""
    THEN Unchanged(TokenError("invalid_grant", "code_verifier_required"))
    ELSE IF pkce_required(auth_data)
            /\ ~pkce_match(auth_data.code_challenge, code_verifier)
    THEN Unchanged(TokenError("invalid_grant", "pkce_mismatch"))
    ELSE LET access_token == token_urlsafe(rng)
             refresh_token == token_urlsafe(rng + 1)
         IN  [response |-> TokenIssued(access_token, refresh_token, auth_data.scope),
              authorization_codes |-> consume_code(code),
              access_tokens |->
                  Put(access_tokens, access_token,
                      token_record(auth_data.user_id, auth_data.scope,
                                   TOKEN_EXPIRY_SECONDS)),
              refresh_tokens |->
                  Put(refresh_tokens, refresh_token,
                      token_record(auth_data.user_id, auth_data.scope,
                                   REFRESH_TOKEN_EXPIRY_SECONDS)),
              rng |-> rng + 2]

(* line 325 *)
refresh_expired(refresh_data) == refresh_data.expires_at < now

(* line 326: the expired refresh token is deleted; lines 330-343: a valid one
   stays as it is *)
(* faulty variant: the expired refresh token is left in the store *)
drop_expired_refresh_forgotten(refresh_token) == refresh_tokens

drop_expired_refresh(refresh_token) == Del(refresh_tokens, refresh_token)

(* faulty variant: the refresh token is used up by the refresh *)
keep_refresh_used_up(refresh_token) == Del(refresh_tokens, refresh_token)

keep_refresh(refresh_token) == refresh_tokens

(* lines 317-343 *)
refresh_token_grant(data) ==
    LET refresh_token == data.refresh_token IN
    IF refresh_token = NoToken \/ refresh_token \notin DOMAIN refresh_tokens
    THEN Unchanged(TokenError("invalid_grant", "refresh_token_not_found"))
    ELSE LET refresh_data == refresh_tokens[refresh_token] IN
    IF refresh_expired(refresh_data)
    THEN [Unchanged(TokenError("invalid_grant", "refresh_token_expired"))
            EXCEPT !.refresh_tokens = drop_expired_refresh(refresh_token)]
    ELSE LET access_token == token_urlsafe(rng)
         IN  [response |-> TokenIssued(access_token, NoToken, refresh_data.scope),
              authorization_codes |-> authorization_codes,
              access_tokens |->
                  Put(access_tokens, access_token,
                      token_record(refresh_data.user_id, refresh_data.scope,
                                   TOKEN_EXPIRY_SECONDS)),
              refresh_tokens |-> keep_refresh(refresh_token),
              rng |-> rng + 1]

(* faulty variant: a grant type that is not refresh_token is handled as a
   code exchange *)
token_endpoint_by_default(data) ==
    IF data.grant_type = "refresh_token"
    THEN refresh_token_grant(data)
    ELSE authorization_code_grant(data)

(* lines 246-347 *)
token_endpoint(data) ==
    IF data.grant_type = ""
    THEN Unchanged(TokenError("invalid_request", "missing_grant_type"))
    ELSE IF data.grant_type = "authorization_code"
    THEN authorization_code_grant(data)
    ELSE IF data.grant_type = "refresh_token"
    THEN refresh_token_grant(data)
    ELSE Unchanged(TokenError("unsupported_grant_type", data.grant_type))

(* the locals grant_type, code, redirect_uri, code_verifier and refresh_token
   of the handler when the body gave none of them: each is falsy *)
NoData ==
    [grant_type |-> "", code |-> NoToken, redirect_uri |-> "",
     code_verifier |-> "", refresh_token |-> NoToken]

(* the grant parameters, in the order a client writes them into a body *)
Fields == <<"grant_type", "code", "redirect_uri", "code_verifier", "refresh_token">>
FieldNames == {Fields[i] : i \in DOMAIN Fields}
(* the client's credentials, which a body may carry after them *)
ClientFields == <<"client_id", "client_secret">>
(* the empty string as a value of the parameter *)
Blank(name) == IF name \in DOMAIN NoData THEN NoData[name] ELSE ""

(* A Content-Type header is the sequence of its parts between semicolons; a
   body text is written in one syntax: "form" with its name=value pairs in
   order, "json" with the value it denotes (an object with its members, or an
   array), or "other". *)
FormType == <<"application/x-www-form-urlencoded">>
FormTypeCharset == <<"application/x-www-form-urlencoded", "charset=utf-8">>
JsonType == <<"application/json">>
PlainType == <<"text/plain">>

(* percent-encoding of a value in a form body, and its decoding *)
quote(value) == [pct |-> value]
unquote(quoted) == quoted.pct

(* faulty variant: only the bare media type counts as form-encoded *)
is_form_exact(content_type) == content_type = FormType

(* line 234: "application/x-www-form-urlencoded" in content_type *)
is_form(content_type) ==
    \E i \in DOMAIN content_type : content_type[i] = "application/x-www-form-urlencoded"

(* urllib.parse.parse_qs(body), line 237: name -> list of its values in
   order, percent-decoded; pairs with a blank value are left out
   (keep_blank_values is False); a text without name=value pairs gives {} *)
parse_qs(text) ==
    LET pairs == IF text.syntax = "form" THEN text.pairs ELSE <<>>
        kept == SelectSeq(pairs, LAMBDA pair : pair[2] # quote(Blank(pair[1])))
    IN  [name \in {kept[i][1] : i \in DOMAIN kept} |->
            LET values == SelectSeq(kept, LAMBDA pair : pair[1] = name)
            IN  [i \in DOMAIN values |-> unquote(values[i][2])]]

(* line 239: {k: (v[0] if v else "") for k, v in parsed.items()} *)
flatten(parsed) ==
    [name \in DOMAIN parsed |->
        LET v == parsed[name] IN IF v # <<>> THEN v[1] ELSE Blank(name)]

(* lines 241-244: await request.json(), {} when the body is not JSON *)
request_json(text) ==
    IF text.syntax = "json"
    THEN [is |-> text.is, members |-> text.members]
    ELSE [is |-> "object", members |-> EmptyDict]

(* lines 231-244: the value bound to `data` *)
request_data(body) ==
    IF is_form(body.content_type)
    THEN [is |-> "object", members |-> flatten(parse_qs(body.text))]
    ELSE request_json(body.text)

(* faulty variant: the code is read only from a body that names no client or
   the client client1 *)
get_client_bound(data, name) ==
    IF name = "code" /\ "client_id" \in DOMAIN data /\ data["client_id"] # "client1"
    THEN Blank(name)
    ELSE IF name \in DOMAIN data THEN data[name] ELSE Blank(name)

(* data.get(name) for the five parameters, lines 246, 252-254 and 318: None
   for a missing key and "" for a blank member are both falsy and the handler
   only tests them for truth, so both read as Blank(name) *)
get(data, name) == IF name \in DOMAIN data THEN data[name] ELSE Blank(name)

data_get(data) ==
    [grant_type |-> get(data, "grant_type"),
     code |-> get(data, "code"),
     redirect_uri |-> get(data, "redirect_uri"),
     code_verifier |-> get(data, "code_verifier"),
     refresh_token |-> get(data, "refresh_token")]

parse_body(body) == data_get(request_data(body).members)

(* the response of the server when the handler raises: data.get on a value
   that is not a dict raises AttributeError at line 246, which no except
   clause catches *)
ServerError ==
    [status |-> 500, error |-> "", reason |-> "Internal Server Error",
     access_token |-> NoToken, refresh_token |-> NoToken, scope |-> ""]

(* POST /oauth/token, lines 228-347, from the body to the response *)
token_request(body) ==
    LET data == request_data(body)
    IN  IF data.is = "object"
        THEN token_endpoint(data_get(data.members))
        ELSE Unchanged(ServerError)

----------------------------------------------------------------------------
(* Bearer tokens presented in the Authorization header: either a token_urlsafe
   string, or a JWT, which carries a payload and an HMAC made with some key
   over some payload. *)

Urlsafe(n) == [fmt |-> "urlsafe", id |-> n]
Jwt(payload, key, signed_payload) ==
    [fmt |-> "jwt", payload |-> payload,
     hmac |-> [key |-> key, payload |-> signed_payload]]

(* jwt.decode(token, key, algorithms=["HS256"]), line 148: the token must be a
   JWT, its HMAC must be the one `key` gives for its payload, and an exp claim,
   when the payload has one, must be later than now. *)
(* faulty variant: the signature is not verified *)
jwt_decode_unverified(token, key) ==
    IF token.fmt # "jwt"
    THEN [valid |-> FALSE, error |-> "DecodeError"]
    ELSE IF "exp" \in DOMAIN token.payload /\ token.payload.exp <= now
    THEN [valid |-> FALSE, error |-> "ExpiredSignatureError"]
    ELSE [valid |-> TRUE, payload |-> token.payload]

jwt_decode(token, key) ==
    IF token.fmt # "jwt"
    THEN [valid |-> FALSE, error |-> "DecodeError"]
    ELSE IF token.hmac # [key |-> key, payload |-> token.payload]
    THEN [valid |-> FALSE, error |-> "InvalidSignatureError"]
    ELSE IF "exp" \in DOMAIN token.payload /\ token.payload.exp <= now
    THEN [valid |-> FALSE, error |-> "ExpiredSignatureError"]
    ELSE [valid |-> TRUE, payload |-> token.payload]

(* str.lower() on the schemes that occur *)
lower(word) ==
    CASE word = "Bearer" -> "bearer"
      [] word = "BEARER" -> "bearer"
      [] word = "Basic" -> "basic"
      [] OTHER -> word

(* faulty variant: the token is turned away only at the instant of its expiry *)
token_valid_but_at_expiry(token_data) == token_data.expires_at # now

(* line 138 *)
token_valid(token_data) == token_data.expires_at > now

(* faulty variant: every expired access token is deleted with the one presented *)
drop_expired_token_sweeping(token) ==
    [k \in {j \in DOMAIN access_tokens : access_tokens[j].expires_at > now} |->
        access_tokens[k]]

(* faulty variant: the expired access token is left in the store *)
drop_expired_token_forgotten(token) == access_tokens

(* line 142: the expired access token is deleted *)
drop_expired_token(token) == Del(access_tokens, token.id)

(* lines 136-144: the token is a key of access_tokens *)
verify_stored(token) ==
    LET token_data == access_tokens[token.id] IN
    IF token_valid(token_data)
    THEN [user_id |-> token_data.user_id, access_tokens |-> access_tokens]
    ELSE [user_id |-> None, access_tokens |-> drop_expired_token(token)]

(* lines 146-152: fall back to JWT validation *)
verify_jwt(token) ==
    LET decoded == jwt_decode(token, SIGNING_KEY) IN
    IF decoded.valid
    THEN [user_id |-> IF "sub" \in DOMAIN decoded.payload
                      THEN decoded.payload.sub ELSE None,
          access_tokens |-> access_tokens]
    ELSE [user_id |-> None, access_tokens |-> access_tokens]

(* faulty variant: the scheme is not looked at *)
malformed_any_scheme(parts) == Len(parts) # 2

(* line 127 *)
malformed(parts) == Len(parts) # 2 \/ lower(parts[1]) # "bearer"

(* lines 120-152.  `authorization` is the header split on whitespace, <<>> when
   the header is absent or empty. *)
verify_bearer_token(authorization) ==
    IF authorization = <<>>
    THEN [user_id |-> None, access_tokens |-> access_tokens]
    ELSE IF malformed(authorization)
    THEN [user_id |-> None, access_tokens |-> access_tokens]
    ELSE LET token == authorization[2] IN
         IF token.fmt = "urlsafe" /\ token.id \in DOMAIN access_tokens
         THEN verify_stored(token)
         ELSE verify_jwt(token)

(* lines 353-361 and 408-416: the guard of both proxy handlers.  `not user_id`
   also rejects an empty subject. *)
proxy_guard(authorization) ==
    LET verified == verify_bearer_token(authorization) IN
    IF verified.user_id = None \/ verified.user_id = ""
    THEN [proceed |-> FALSE, user_id |-> verified.user_id,
          access_tokens |-> verified.access_tokens,
          response |-> [status |-> 401, www_authenticate |-> "Bearer",
                        detail |-> "Invalid or missing bearer token"]]
    ELSE [proceed |-> TRUE, user_id |-> verified.user_id,
          access_tokens |-> verified.access_tokens,
          response |-> [status |-> 0, www_authenticate |-> "", detail |-> ""]]

----------------------------------------------------------------------------
(* The requests the environment sends *)

(* what a PKCE client sends as code_challenge for a verifier (S256) *)
S256(code_verifier) == rstrip_eq(urlsafe_b64encode(sha256(code_verifier)))
S256Padded(code_verifier) == urlsafe_b64encode(sha256(code_verifier))

AuthorizeRequests ==
    { [response_type |-> "code", redirect_uri |-> CLAUDE_CALLBACK_URL,
       scope |-> "", code_challenge |-> <<>>, code_challenge_method |-> ""],
      [response_type |-> "code", redirect_uri |-> CLAUDE_CALLBACK_URL,
       scope |-> "claudeai", code_challenge |-> S256("v1"),
       code_challenge_method |-> "S256"],
      [response_type |-> "code", redirect_uri |-> CLAUDE_CALLBACK_URL,
       scope |-> "", code_challenge |-> S256Padded("v1"),
       code_challenge_method |-> "S256"],
      [response_type |-> "token", redirect_uri |-> CLAUDE_CALLBACK_URL,
       scope |-> "", code_challenge |-> <<>>, code_challenge_method |-> ""],
      [response_type |-> "code", redirect_uri |-> CLAUDE_CALLBACK_URL \o "/x",
       scope |-> "", code_challenge |-> <<>>, code_challenge_method |-> ""],
      [response_type |-> "token", redirect_uri |-> "https://evil.example/cb",
       scope |-> "", code_challenge |-> <<>>, code_challenge_method |-> ""] }

(* the token strings a caller can present: every one drawn so far, one not yet
   drawn, and none *)
Presentable == {n \in TokenStrings : n <= rng + 1}

ExchangeData(c, redirect_uri, code_verifier) ==
    [NoData EXCEPT !.grant_type = "authorization_code", !.code = c,
                   !.redirect_uri = redirect_uri, !.code_verifier = code_verifier]
RefreshData(r) ==
    [NoData EXCEPT !.grant_type = "refresh_token", !.refresh_token = r]

(* the requests sent to the token endpoint *)
TokenData ==
    { [NoData EXCEPT !.grant_type = g] : g \in {"", "client_credentials"} }
    \cup { ExchangeData(c, x[1], x[2]) :
             c \in Presentable,
             x \in { <<CLAUDE_CALLBACK_URL, "v1">>, <<"", "v2">>,
                     <<"https://evil.example/cb", "v1">> } }
    \cup { ExchangeData(NoToken, "", "") }
    \cup { RefreshData(r) : r \in Presentable \cup {NoToken} }

(* urllib.parse.urlencode(params) on the client's side: one name=value pair
   per parameter given, values percent-encoded *)
urlencode(params) ==
    LET given == SelectSeq(Fields \o ClientFields, LAMBDA name : name \in DOMAIN params)
    IN  [i \in DOMAIN given |-> <<given[i], quote(params[given[i]])>>]

FormText(params) ==
    [syntax |-> "form", pairs |-> urlencode(params), is |-> "", members |-> EmptyDict]
JsonText(params) ==
    [syntax |-> "json", pairs |-> <<>>, is |-> "object", members |-> params]

(* the bodies a client sends: the parameters form-encoded or as a JSON object,
   a JSON array, and a text that is neither *)
FormBody(params) == [content_type |-> FormType, text |-> FormText(params)]
JsonBody(params) == [content_type |-> JsonType, text |-> JsonText(params)]
JsonArray ==
    [content_type |-> JsonType,
     text |-> [syntax |-> "json", pairs |-> <<>>, is |-> "array", members |-> EmptyDict]]
NotJson ==
    [content_type |-> PlainType,
     text |-> [syntax |-> "other", pairs |-> <<>>, is |-> "", members |-> EmptyDict]]

(* grant requests arrive form-encoded; requests without a usable grant_type
   arrive in every encoding *)
TokenBodies ==
    { FormBody(d) : d \in TokenData }
    \cup { JsonBody(d) : d \in {x \in TokenData : x.code = NoToken
                                                  /\ x.refresh_token = NoToken} }
    \cup { NotJson, JsonArray }

(* create_access_token, lines 107-117: the payload of a JWT minted at `at` *)
create_access_token(subject, at) ==
    [sub |-> subject, iat |-> at, exp |-> at + TOKEN_EXPIRY_SECONDS,
     scope |-> "mcp:full", iss |-> "ticktick-mcp-gateway"]

Minted == create_access_token("user_a", 0)
NoExp == [c \in DOMAIN Minted \ {"exp"} |-> Minted[c]]
NoSub == [c \in DOMAIN Minted \ {"sub"} |-> Minted[c]]
Extended == [Minted EXCEPT !.exp = MaxTime + 1]

MintedToken == Jwt(Minted, SIGNING_KEY, Minted)

JwtTokens ==
    { MintedToken,                           \* as minted
      Jwt(Minted, "other_key", Minted),      \* signed with another key
      Jwt(Extended, SIGNING_KEY, Minted),    \* payload altered after signing
      Jwt(NoExp, SIGNING_KEY, NoExp),        \* signed, without exp
      Jwt(NoSub, SIGNING_KEY, NoSub) }       \* signed, without sub

UrlsafeTokens == {Urlsafe(n) : n \in Presentable}

(* the Authorization headers sent to the proxies *)
Headers ==
    { <<>>, <<"Bearer">>, <<"bearer", MintedToken>>, <<"Basic", MintedToken>>,
      <<"Bearer", MintedToken, MintedToken>> }
    \cup { <<"Bearer", k>> : k \in UrlsafeTokens \cup JwtTokens }

----------------------------------------------------------------------------
(* History kept for the properties: for every string drawn, what it was minted
   as, for whom, with which scope, when and from which code or refresh token;
   for a code, how
   often it was exchanged for tokens; and whether the record is live, was
   exchanged, or was dropped as expired.  An entry whose record is gone keeps
   only its kind, wins and fate.  overlap[t] holds the codes that were
   exchanged while the token request t was waiting for its body. *)

Entry(kind, user, scope, source) ==
    [kind |-> kind, user_id |-> user, scope |-> scope, at |-> now,
     source |-> source, wins |-> 0, fate |-> "live"]

Gone(entry, fate) ==
    [kind |-> entry.kind, user_id |-> None, scope |-> "", at |-> 0,
     source |-> NoToken, wins |-> entry.wins, fate |-> fate]

(* the ledger after a code exchange or a refresh has issued tokens *)
Issue(data, response) ==
    LET exchange == data.grant_type = "authorization_code"
        source == IF exchange THEN data.code ELSE data.refresh_token
        user == IF source \in DOMAIN ledger THEN ledger[source].user_id ELSE None
        scope == IF source \in DOMAIN ledger THEN ledger[source].scope ELSE ""
        won == IF exchange /\ source \in DOMAIN ledger
               THEN [ledger EXCEPT ![source] =
                        Gone([@ EXCEPT !.wins = @ + 1], "exchanged")]
               ELSE ledger
        withAccess == Put(won, response.access_token, Entry("access", user, scope, source))
    IN  IF response.refresh_token # NoToken
        THEN Put(withAccess, response.refresh_token, Entry("refresh", user, scope, source))
        ELSE withAccess

(* the ledger after records were dropped from a store as expired *)
Dropped(led, before, after) ==
    [k \in DOMAIN led |->
        IF k \in DOMAIN before /\ k \notin DOMAIN after
        THEN Gone(led[k], "expired") ELSE led[k]]

CodesMinted == Cardinality({k \in DOMAIN ledger : ledger[k].kind = "code"})

----------------------------------------------------------------------------
(* gateway.py, the client-credentials gateway.  A string that is cut at colons
   is the sequence of its segments between the colons. *)

(* ":".join(segments) *)
RECURSIVE join(_)
join(segments) ==
    IF Len(segments) = 1 THEN segments[1]
    ELSE segments[1] \o ":" \o join(Tail(segments))

(* text.split(":", 1): the part before the first colon and the rest; a text
   without a colon cannot be unpacked into two names (ValueError) *)
split_first(segments) ==
    IF Len(segments) < 2
    THEN [ok |-> FALSE, head |-> None, rest |-> None]
    ELSE [ok |-> TRUE, head |-> segments[1], rest |-> join(Tail(segments))]

(* an entry of MCP_OAUTH_CLIENTS between two commas: blanks around it, which
   pair.strip() removes, and its segments *)
Entry_of(blanks, segments) == [blanks |-> blanks, segments |-> segments]
strip(entry) == entry.segments

(* lines 34-41: OAUTH_CLIENTS after the first `upto` entries of the
   environment value; an entry without a colon is skipped, a later entry of
   the same client_id replaces the earlier one *)
RECURSIVE load_clients(_, _)
load_clients(entries, upto) ==
    IF upto = 0 THEN EmptyDict
    ELSE LET before == load_clients(entries, upto - 1)
             pair == split_first(strip(entries[upto]))
         IN  IF pair.ok THEN Put(before, pair.head, pair.rest) ELSE before

OAUTH_CLIENTS == load_clients(clients, Len(clients))

(* faulty variant: a known client_id is enough *)
validate_client_credentials_by_id(client_id, client_secret) ==
    client_id \in DOMAIN OAUTH_CLIENTS

(* lines 66-68: OAUTH_CLIENTS.get(client_id) == client_secret *)
validate_client_credentials(client_id, client_secret) ==
    client_id \in DOMAIN OAUTH_CLIENTS /\ OAUTH_CLIENTS[client_id] = client_secret

(* An Authorization header of the token endpoint is <<scheme, credential>>,
   the text before and after its first space; a credential is the base64 of a
   text, or is not base64 at all. *)
b64encode(segments) == [b64 |-> TRUE, of |-> segments]
NotBase64 == [b64 |-> FALSE, of |-> <<>>]
NoHeader == <<"", NotBase64>>

(* lines 123-130: the credentials of a Basic header; any exception in
   decoding or unpacking leaves both names None *)
basic_credentials(auth_header) ==
    LET pair == split_first(auth_header[2].of)
    IN  IF auth_header[1] = "Basic" /\ auth_header[2].b64 /\ pair.ok
        THEN [client_id |-> pair.head, client_secret |-> pair.rest]
        ELSE [client_id |-> None, client_secret |-> None]

(* the parsed body, or None when the request has none *)
TokenRequest(grant_type, client_id, client_secret) ==
    [present |-> TRUE, grant_type |-> grant_type,
     client_id |-> client_id, client_secret |-> client_secret]
NoTokenRequest ==
    [present |-> FALSE, grant_type |-> None, client_id |-> None, client_secret |-> None]

falsy(text) == text = None \/ text = ""

(* lines 132-135: the credentials the handler goes on with *)
credentials(auth_header, posted) ==
    LET basic == basic_credentials(auth_header)
    IN  IF falsy(basic.client_id) /\ posted.present
        THEN [client_id |-> posted.client_id,
              client_secret |-> posted.client_secret]
        ELSE basic

(* jwt.encode(payload, SIGNING_KEY, algorithm="HS256"), line 81 *)
jwt_encode(payload, secret) == Jwt(payload, secret, payload)

HttpError(status_code, detail) ==
    [status |-> status_code, detail |-> detail, www_authenticate |-> "Bearer",
     access_token |-> NoToken, token_type |-> "", expires_in |-> 0, scope |-> ""]

(* lines 108-169: POST /oauth/token of gateway.py *)
client_token_endpoint(auth_header, posted) ==
    LET supplied == credentials(auth_header, posted)
        grant_type == posted.grant_type
    IN  IF grant_type # "client_credentials"
        THEN HttpError(400, "unsupported_grant_type")
        ELSE IF falsy(supplied.client_id) \/ falsy(supplied.client_secret)
        THEN HttpError(401, "invalid_client")
        ELSE IF ~validate_client_credentials(supplied.client_id, supplied.client_secret)
        THEN HttpError(401, "invalid_client")
        ELSE [status |-> 200, detail |-> "", www_authenticate |-> "",
              access_token |-> jwt_encode(create_access_token(supplied.client_id, now),
                                          signing_key),
              token_type |-> "Bearer", expires_in |-> TOKEN_EXPIRY_SECONDS,
              scope |-> "mcp:full"]

(* lines 83-105: verify_bearer_token of gateway.py; without a sub claim
   payload.get("sub") is None *)
client_verify_bearer_token(authorization) ==
    IF authorization = <<>> \/ malformed(authorization)
    THEN None
    ELSE LET decoded == jwt_decode(authorization[2], signing_key)
         IN  IF ~decoded.valid THEN None
             ELSE IF "exp" \in DOMAIN decoded.payload /\ decoded.payload.exp < now
             THEN None
             ELSE IF "sub" \in DOMAIN decoded.payload THEN decoded.payload.sub
             ELSE None

----------------------------------------------------------------------------
(* Actions: each is a handler, or the part of a handler between two awaits *)

Init ==
    /\ authorization_codes = EmptyDict
    /\ access_tokens = EmptyDict
    /\ refresh_tokens = EmptyDict
    /\ now = 0
    /\ rng = 0
    /\ pc = [t \in Tasks |-> "idle"]
    /\ user_id = [t \in Tasks |-> None]
    /\ sent = [t \in Tasks |-> 0]
    /\ ledger = EmptyDict
    /\ overlap = [t \in Tasks |-> {}]
    /\ looked = [t \in Tasks |-> NoLook]
    /\ running = Nobody
    /\ upstream = [t \in Tasks |-> "closed"]
    /\ emitted = <<>>
    /\ delivered = <<>>
    /\ caller = "connected"
    /\ clients = <<Entry_of("", <<"client1", "secret1">>)>>
    /\ signing_key = SIGNING_KEY
    /\ granted = {}
    /\ environ = None

(* time passes *)
Tick ==
    /\ now < MaxTime
    /\ now' = now + 1
    /\ UNCHANGED <<stores, rng, pc, user_id, sent, ledger, overlap, loop, stream, client_gateway, environ>>

(* GET /authorize: the handler has no await *)
AuthorizeFor(client_id, request, uid) ==
    LET result == authorize(request.response_type, client_id, request.redirect_uri,
                            "xyz", request.scope, request.code_challenge,
                            request.code_challenge_method, uid)
    IN  /\ result.rng <= MaxDraws
        /\ result.response.status = 200 => CodesMinted < MaxCodes
        /\ authorization_codes' = result.authorization_codes
        /\ access_tokens' = result.access_tokens
        /\ refresh_tokens' = result.refresh_tokens
        /\ rng' = result.rng
        /\ ledger' = IF result.response.status = 200
                     THEN Put(ledger, result.response.code,
                              Entry("code", uid,
                                    result.authorization_codes[result.response.code].scope,
                                    NoToken))
                     ELSE ledger
        /\ UNCHANGED <<now, pc, user_id, sent, overlap, loop, stream, client_gateway, environ>>

(* GET /authorize from the client the model's other requests come from *)
Authorize(request, uid) == AuthorizeFor("claude", request, uid)

(* POST /oauth/token up to `await request.body()` / `await request.json()` *)
TokenBegin(t) ==
    /\ pc[t] = "idle"
    /\ pc' = [pc EXCEPT ![t] = "token_body"]
    /\ UNCHANGED <<stores, now, rng, user_id, sent, ledger, overlap, loop, stream, client_gateway, environ>>

(* lines 246-347 run for the request task t: the stores after them, and the
   response that ends the request *)
TokenEffect(t, data) ==
    LET result == token_endpoint(data)
        issued == result.response.status = 200
        exchanged == issued /\ data.grant_type = "authorization_code"
    IN  /\ result.rng <= MaxDraws
        /\ authorization_codes' = result.authorization_codes
        /\ access_tokens' = result.access_tokens
        /\ refresh_tokens' = result.refresh_tokens
        /\ rng' = result.rng
        /\ pc' = [pc EXCEPT ![t] = "idle"]
        /\ ledger' = IF issued THEN Issue(data, result.response)
                     ELSE Dropped(Dropped(ledger, authorization_codes,
                                          result.authorization_codes),
                                  refresh_tokens, result.refresh_tokens)
        /\ overlap' = [u \in Tasks |->
                         IF u = t THEN {}
                         ELSE IF pc[u] = "token_body" /\ exchanged
                         THEN overlap[u] \cup {data.code}
                         ELSE overlap[u]]
        /\ UNCHANGED <<now, user_id, sent, stream, client_gateway, environ>>

(* POST /oauth/token from the arrival of the body to the response *)
TokenHandle(t, body) ==
    /\ pc[t] = "token_body"
    /\ LET data == request_data(body)
       IN  IF data.is = "object"
           THEN TokenEffect(t, data_get(data.members))
           ELSE /\ pc' = [pc EXCEPT ![t] = "idle"]
                /\ overlap' = [overlap EXCEPT ![t] = {}]
                /\ UNCHANGED <<stores, now, rng, user_id, sent, ledger, stream, client_gateway, environ>>
    /\ UNCHANGED loop

(* Responses of the proxy endpoints *)
Unauthorized ==
    [status |-> 401, www_authenticate |-> "Bearer",
     detail |-> "Invalid or missing bearer token"]
Relayed(backend_status) ==
    [status |-> backend_status, www_authenticate |-> "", detail |-> ""]
BadGateway ==
    [status |-> 502, www_authenticate |-> "",
     detail |-> "Failed to connect to MCP server"]

(* the guard of a proxy handler run for the request task t: on to the
   handler's first await, or the 401 that ends the request *)
GuardEffect(t, authorization, awaiting, requests) ==
    LET guard == proxy_guard(authorization) IN
    /\ access_tokens' = guard.access_tokens
    /\ ledger' = Dropped(ledger, access_tokens, guard.access_tokens)
    /\ IF guard.proceed
       THEN /\ pc' = [pc EXCEPT ![t] = awaiting]
            /\ user_id' = [user_id EXCEPT ![t] = guard.user_id]
            /\ sent' = [sent EXCEPT ![t] = requests]
            /\ upstream' = [upstream EXCEPT ![t] = IF requests > 0 THEN "open" ELSE @]
       ELSE /\ pc' = [pc EXCEPT ![t] = "idle"]
            /\ UNCHANGED <<user_id, sent, upstream>>
    /\ UNCHANGED <<authorization_codes, refresh_tokens, now, rng, overlap, relay, client_gateway, environ>>

(* a proxy handler from its start to its first await, or to its 401 *)
ProxyBegin(t, authorization, awaiting, requests) ==
    /\ pc[t] = "idle"
    /\ GuardEffect(t, authorization, awaiting, requests)
    /\ UNCHANGED loop

(* the request body has arrived: the handler sends its request to the backend *)
ProxySend(t, from, awaiting) ==
    /\ pc[t] = from
    /\ pc' = [pc EXCEPT ![t] = awaiting]
    /\ sent' = [sent EXCEPT ![t] = @ + 1]
    /\ upstream' = [upstream EXCEPT ![t] = "open"]
    /\ UNCHANGED <<stores, now, rng, user_id, ledger, overlap, loop, relay, client_gateway, environ>>

(* what becomes of one backend request: httpx raises RequestError (connect
   timeout, refused connection, DNS failure), or the backend answers *)
Answered(backend_status) == [failed |-> FALSE, status |-> backend_status]
RequestError == [failed |-> TRUE, status |-> 0]
BackendOutcomes == {Answered(200), Answered(500), RequestError}

(* faulty variant: the failure is passed on like an answer of the backend *)
proxy_response_passed_on(outcome) == Relayed(outcome.status)

(* the response of a POST proxy handler: the backend's answer, or the 502 of
   the except clause *)
proxy_response(outcome) ==
    IF outcome.failed THEN BadGateway ELSE Relayed(outcome.status)

(* the backend answers, or httpx raises RequestError: the handler responds,
   and leaving "async with httpx.AsyncClient()" closes the connection *)
ProxyEnd(t, from, outcome) ==
    /\ pc[t] = from
    /\ outcome \in BackendOutcomes
    /\ pc' = [pc EXCEPT ![t] = "idle"]
    /\ user_id' = [user_id EXCEPT ![t] = None]
    /\ sent' = [sent EXCEPT ![t] = 0]
    /\ upstream' = [upstream EXCEPT ![t] = "closed"]
    /\ UNCHANGED <<stores, now, rng, ledger, overlap, loop, relay, client_gateway, environ>>

(* POST /messages, lines 405-437 *)
MessagesBegin(t, authorization) == ProxyBegin(t, authorization, "messages_body", 0)
MessagesSend(t) == ProxySend(t, "messages_body", "messages_post")
MessagesEnd(t, outcome) == ProxyEnd(t, "messages_post", outcome)

(* POST /sse, lines 350-377 and 398-402 *)
SsePostBegin(t, authorization) == ProxyBegin(t, authorization, "sse_body", 0)
SsePostSend(t) == ProxySend(t, "sse_body", "sse_post")
SsePostEnd(t, outcome) == ProxyEnd(t, "sse_post", outcome)

(* GET /sse, lines 350-363 and 379-388: after the guard the handler enters
   "async with client.stream(...)" without an await in between and waits for
   the backend's response head *)
SseGetBegin(t, authorization) == ProxyBegin(t, authorization, "sse_stream", 1)

(* lines 398-402: client.stream raised RequestError, the handler answers 502 *)
SseGetEnd(t) == ProxyEnd(t, "sse_stream", RequestError)

(* faulty variant: the return statement leaves the stream as it is *)
stream_exit_left_open(connection) == connection

(* the connection a block "async with client.stream(...) as response" leaves
   behind when control leaves the block: __aexit__ closes the response *)
stream_exit(connection) == "closed"

(* lines 389-397: the backend's response head has arrived; the handler builds
   StreamingResponse(response.aiter_raw(), ...) and returns it from inside the
   two "async with" blocks, whose exits run before the response is sent *)
SseGetReturn(t) ==
    /\ pc[t] = "sse_stream"
    /\ pc' = [pc EXCEPT ![t] = "sse_relay"]
    /\ upstream' = [upstream EXCEPT ![t] = stream_exit(@)]
    /\ UNCHANGED <<stores, now, rng, user_id, sent, ledger, overlap, loop, relay, client_gateway, environ>>

(* the backend writes one more chunk to the stream of its connection *)
BackendEmit(t, chunk) ==
    /\ pc[t] \in {"sse_stream", "sse_relay"}
    /\ upstream[t] = "open"
    /\ Len(emitted) < MaxChunks
    /\ emitted' = Append(emitted, chunk)
    /\ UNCHANGED <<stores, now, rng, pc, user_id, sent, ledger, overlap, loop,
                   upstream, delivered, caller, client_gateway, environ>>

(* the caller closes its side of the GET /sse request *)
CallerLeaves(t) ==
    /\ pc[t] \in {"sse_stream", "sse_relay"}
    /\ caller = "connected"
    /\ caller' = "gone"
    /\ UNCHANGED <<stores, now, rng, pc, user_id, sent, ledger, overlap, loop,
                   upstream, emitted, delivered, client_gateway, environ>>

(* Starlette sends the StreamingResponse: each step asks the body iterator
   response.aiter_raw() for the next chunk.  On a closed response aiter_raw
   raises httpx.StreamClosed and the response ends; so it does when the
   caller has gone; otherwise the next chunk of the backend goes out *)
SseGetRelay(t) ==
    /\ pc[t] = "sse_relay"
    /\ IF upstream[t] = "closed" \/ caller = "gone"
       THEN /\ pc' = [pc EXCEPT ![t] = "idle"]
            /\ user_id' = [user_id EXCEPT ![t] = None]
            /\ sent' = [sent EXCEPT ![t] = 0]
            /\ emitted' = <<>>
            /\ delivered' = <<>>
            /\ caller' = "connected"
       ELSE /\ Len(delivered) < Len(emitted)
            /\ delivered' = Append(delivered, emitted[Len(delivered) + 1])
            /\ UNCHANGED <<pc, user_id, sent, emitted, caller>>
    /\ UNCHANGED <<stores, now, rng, ledger, overlap, loop, upstream, client_gateway, environ>>

(* the authorization and token endpoints under concurrent token requests *)
Next ==
    \/ Tick
    \/ \E request \in AuthorizeRequests, uid \in Users : Authorize(request, uid)
    \/ \E t \in Tasks : TokenBegin(t)
    \/ \E t \in Tasks :
          pc[t] = "token_body" /\ \E body \in TokenBodies : TokenHandle(t, body)

Spec == Init /\ [][Next]_vars

(* the authorization and token endpoints serving one request after another *)
NextToken ==
    \/ Tick
    \/ \E request \in AuthorizeRequests, uid \in Users : Authorize(request, uid)
    \/ TokenBegin("t1")
    \/ pc["t1"] = "token_body" /\ \E body \in TokenBodies : TokenHandle("t1", body)

SpecToken == Init /\ [][NextToken]_vars

(* the values of MCP_OAUTH_DISABLE_PKCE the gateway is started with: unset,
   "0", the enabling values "1" and "true", and "True", which line 75 does not
   take for one *)
PkceEnvs == {None, "0", "1", "true", "True"}

InitPkce ==
    /\ environ \in PkceEnvs
    /\ authorization_codes = EmptyDict
    /\ access_tokens = EmptyDict
    /\ refresh_tokens = EmptyDict
    /\ now = 0
    /\ rng = 0
    /\ pc = [t \in Tasks |-> "idle"]
    /\ user_id = [t \in Tasks |-> None]
    /\ sent = [t \in Tasks |-> 0]
    /\ ledger = EmptyDict
    /\ overlap = [t \in Tasks |-> {}]
    /\ looked = [t \in Tasks |-> NoLook]
    /\ running = Nobody
    /\ upstream = [t \in Tasks |-> "closed"]
    /\ emitted = <<>>
    /\ delivered = <<>>
    /\ caller = "connected"
    /\ clients = <<Entry_of("", <<"client1", "secret1">>)>>
    /\ signing_key = SIGNING_KEY
    /\ granted = {}

(* the authorization and token endpoints of a gateway started with any of the
   values of MCP_OAUTH_DISABLE_PKCE *)
SpecPkce == InitPkce /\ [][NextToken]_vars

(* The client credentials sent to the authorization-code gateway: client_id in
   the query of GET /authorize, client_id and client_secret in the body of
   POST /oauth/token.  client1/secret1 is a pair MCP_OAUTH_CLIENTS can
   register, other/wrong is never registered. *)
ClientPairs == { <<"client1", "secret1">>, <<"other", "wrong">> }

(* the grant parameters with the client's credentials added *)
WithClient(params, client_id, client_secret) ==
    [name \in DOMAIN params \cup {"client_id", "client_secret"} |->
        IF name = "client_id" THEN client_id
        ELSE IF name = "client_secret" THEN client_secret
        ELSE params[name]]

(* the form bodies of a client that names itself other *)
ClientBodies == { FormBody(WithClient(d, "other", "wrong")) : d \in TokenData }

(* the gateway started with no client registered, or with client1 *)
InitAnyClient ==
    /\ clients \in { <<>>, <<Entry_of("", <<"client1", "secret1">>)>> }
    /\ signing_key = SIGNING_KEY
    /\ granted = {}
    /\ environ = None
    /\ authorization_codes = EmptyDict
    /\ access_tokens = EmptyDict
    /\ refresh_tokens = EmptyDict
    /\ now = 0
    /\ rng = 0
    /\ pc = [t \in Tasks |-> "idle"]
    /\ user_id = [t \in Tasks |-> None]
    /\ sent = [t \in Tasks |-> 0]
    /\ ledger = EmptyDict
    /\ overlap = [t \in Tasks |-> {}]
    /\ looked = [t \in Tasks |-> NoLook]
    /\ running = Nobody
    /\ upstream = [t \in Tasks |-> "closed"]
    /\ emitted = <<>>
    /\ delivered = <<>>
    /\ caller = "connected"

(* the authorization and token endpoints serving clients that name themselves
   in any way *)
NextAnyClient ==
    \/ Tick
    \/ \E pair \in ClientPairs, request \in AuthorizeRequests :
          AuthorizeFor(pair[1], request, "user_a")
    \/ TokenBegin("t1")
    \/ pc["t1"] = "token_body" /\ \E body \in ClientBodies : TokenHandle("t1", body)

SpecAnyClient == InitAnyClient /\ [][NextAnyClient]_vars

(* the whole gateway serving one request after another *)
NextProxy ==
    \/ Tick
    \/ \E request \in AuthorizeRequests, uid \in Users : Authorize(request, uid)
    \/ TokenBegin("t1")
    \/ pc["t1"] = "token_body" /\ \E body \in TokenBodies : TokenHandle("t1", body)
    \/ \E authorization \in Headers : MessagesBegin("t1", authorization)
    \/ MessagesSend("t1")
    \/ \E outcome \in BackendOutcomes : MessagesEnd("t1", outcome)
    \/ \E authorization \in Headers : SsePostBegin("t1", authorization)
    \/ SsePostSend("t1")
    \/ \E outcome \in BackendOutcomes : SsePostEnd("t1", outcome)
    \/ \E authorization \in Headers : SseGetBegin("t1", authorization)
    \/ SseGetEnd("t1")
    \/ SseGetReturn("t1")
    \/ SseGetRelay("t1")

SpecProxy == Init /\ [][NextProxy]_vars

(* one GET /sse subscription after another, with the backend writing chunks
   to the stream and the caller free to leave *)
NextStream ==
    \/ Tick
    \/ \E authorization \in Headers : SseGetBegin("t1", authorization)
    \/ \E chunk \in Chunks : BackendEmit("t1", chunk)
    \/ CallerLeaves("t1")
    \/ SseGetEnd("t1")
    \/ SseGetReturn("t1")
    \/ SseGetRelay("t1")

SpecStream == Init /\ [][NextStream]_vars

(* gateway.py: values of MCP_OAUTH_CLIENTS, signing keys, and the requests
   sent to its token endpoint *)
ClientEnvs ==
    { <<>>,
      <<Entry_of("", <<"client1", "secret1">>), Entry_of(" ", <<"client2", "se", "cret">>)>>,
      <<Entry_of("", <<"client1", "secret1">>), Entry_of("", <<"client1", "secret2">>)>>,
      <<Entry_of("", <<"nocolon">>), Entry_of("", <<"client2", "secret2">>)>>,
      <<Entry_of("", <<"", "secret1">>), Entry_of("", <<"client2", "">>)>> }

SigningKeys == {SIGNING_KEY, "random_key"}

ClientHeaders ==
    { NoHeader, <<"Basic", NotBase64>>, <<"Basic", b64encode(<<"client1">>)>>,
      <<"Basic", b64encode(<<"client1", "secret1">>)>>,
      <<"Basic", b64encode(<<"client2", "se", "cret">>)>>,
      <<"Basic", b64encode(<<"", "secret1">>)>>,
      <<"Bearer", b64encode(<<"client1", "secret1">>)>> }

ClientRequests ==
    { NoTokenRequest,
      TokenRequest("client_credentials", None, None),
      TokenRequest("client_credentials", "client1", "secret1"),
      TokenRequest("client_credentials", "client1", "secret2"),
      TokenRequest("client_credentials", "client2", "secret2"),
      TokenRequest("authorization_code", "client1", "secret1") }

InitClient ==
    /\ clients \in ClientEnvs
    /\ signing_key = SIGNING_KEY
    /\ granted = {}
    /\ environ = None
    /\ authorization_codes = EmptyDict
    /\ access_tokens = EmptyDict
    /\ refresh_tokens = EmptyDict
    /\ now = 0
    /\ rng = 0
    /\ pc = [t \in Tasks |-> "idle"]
    /\ user_id = [t \in Tasks |-> None]
    /\ sent = [t \in Tasks |-> 0]
    /\ ledger = EmptyDict
    /\ overlap = [t \in Tasks |-> {}]
    /\ looked = [t \in Tasks |-> NoLook]
    /\ running = Nobody
    /\ upstream = [t \in Tasks |-> "closed"]
    /\ emitted = <<>>
    /\ delivered = <<>>
    /\ caller = "connected"

(* gateway.py, POST /oauth/token: the handler has no await; the caller keeps
   the token of a 200 response *)
ClientToken(auth_header, posted) ==
    LET response == client_token_endpoint(auth_header, posted)
    IN  /\ granted' = IF response.status = 200 THEN {response.access_token} ELSE granted
        /\ UNCHANGED <<stores, now, rng, pc, user_id, sent, ledger, overlap, loop,
                       stream, clients, signing_key, environ>>

(* gateway.py, lines 44-50: the process starts again; without
   MCP_OAUTH_SIGNING_KEY it draws a new random key *)
Restart(secret) ==
    /\ signing_key' = secret
    /\ UNCHANGED <<stores, now, rng, pc, user_id, sent, ledger, overlap, loop,
                   stream, clients, granted, environ>>

NextClient ==
    \/ Tick
    \/ \E auth_header \in ClientHeaders, posted \in ClientRequests :
          ClientToken(auth_header, posted)
    \/ \E secret \in SigningKeys : Restart(secret)

SpecClient == InitClient /\ [][NextClient]_vars

----------------------------------------------------------------------------
(* The handlers statement by statement.  A handler runs on the event loop
   until it awaits; only then can another request task run.  Here the store
   lookup of a handler and what the handler does with the record it found are
   separate steps, and the event loop is handed over where the code awaits. *)

(* the places where a handler awaits: request.body() / request.json() (lines
   235, 242, 366, 418) and the backend call (lines 367, 380, 422) *)
AwaitPoints ==
    {"token_body", "messages_body", "messages_post", "sse_body", "sse_post",
     "sse_stream"}

(* faulty variant: the store lookup is awaited (a store behind a network
   call) *)
suspends_on_lookup(at) == at \in AwaitPoints \cup {"token_found", "guard_found"}

(* the handler gives up the event loop at `at` *)
suspends(at) == at \in AwaitPoints

Stored ==
    [authorization_codes |-> authorization_codes, access_tokens |-> access_tokens,
     refresh_tokens |-> refresh_tokens]

Lookup(t, request, found) ==
    /\ running = Nobody
    /\ pc' = [pc EXCEPT ![t] = found]
    /\ looked' = [looked EXCEPT ![t] = [request |-> request, seen |-> Stored]]
    /\ running' = IF suspends(found) THEN Nobody ELSE t
    /\ UNCHANGED <<stores, now, rng, user_id, sent, ledger, overlap, stream, client_gateway, environ>>

(* lines 246-262: the body is parsed and the code or refresh token looked up *)
TokenLookup(t, body) ==
    /\ pc[t] = "token_body"
    /\ token_endpoint(parse_body(body)).rng <= MaxDraws
    /\ Lookup(t, parse_body(body), "token_found")

(* lines 264-347: the checks on the record found, the deletes and inserts *)
TokenCommit(t) ==
    /\ pc[t] = "token_found"
    /\ running \in {t, Nobody}
    /\ TokenEffect(t, looked[t].request)
    /\ looked' = [looked EXCEPT ![t] = NoLook]
    /\ running' = Nobody

(* lines 120-136: the header is split and the token looked up *)
GuardLookup(t, authorization) ==
    /\ pc[t] = "idle"
    /\ Lookup(t, authorization, "guard_found")

(* lines 137-152 and 411-418: expiry check, delete, and the handler's guard *)
GuardCommit(t) ==
    /\ pc[t] = "guard_found"
    /\ running \in {t, Nobody}
    /\ GuardEffect(t, looked[t].request, "messages_body", 0)
    /\ looked' = [looked EXCEPT ![t] = NoLook]
    /\ running' = Nobody

(* the requests sent while the handlers are followed statement by statement:
   t1 is a token request and t2 a POST /messages *)
StepBodies ==
    { FormBody(ExchangeData(c, "", "v1")) : c \in Presentable }
    \cup { FormBody(RefreshData(r)) : r \in Presentable }
StepHeaders == { <<"Bearer", k>> : k \in UrlsafeTokens }

NextSteps ==
    \/ running = Nobody /\ Tick
    \/ /\ running = Nobody
       /\ \E request \in AuthorizeRequests, uid \in Users : Authorize(request, uid)
    \/ running = Nobody /\ TokenBegin("t1")
    \/ \E body \in StepBodies : TokenLookup("t1", body)
    \/ TokenCommit("t1")
    \/ \E authorization \in StepHeaders : GuardLookup("t2", authorization)
    \/ GuardCommit("t2")
    \/ running = Nobody /\ MessagesSend("t2")
    \/ \E outcome \in BackendOutcomes : running = Nobody /\ MessagesEnd("t2", outcome)

SpecSteps == Init /\ [][NextSteps]_vars

----------------------------------------------------------------------------
(* Properties *)

(* every exchange request for the code c, and every refresh request for r *)
ExchangeRequests(c) ==
    { ExchangeData(c, redirect_uri, code_verifier) :
        redirect_uri \in {"", CLAUDE_CALLBACK_URL, "https://evil.example/cb"},
        code_verifier \in {"", "v1", "v2"} }

RefreshRequests(r) == { RefreshData(r) }

(* every Authorization header a request can carry *)
AnyHeader ==
    { <<>>, <<"Bearer">> }
    \cup { <<scheme, k>> : scheme \in {"Bearer", "bearer", "BEARER", "Basic"},
                           k \in UrlsafeTokens \cup JwtTokens }
    \cup { <<"Bearer", k, k>> : k \in UrlsafeTokens \cup JwtTokens }

Codes == {c \in DOMAIN ledger : ledger[c].kind = "code"}

Fails(result, error, reason) ==
    /\ result.response.status = 400
    /\ result.response.error = error
    /\ result.response.reason = reason

NothingIssued(result) ==
    /\ result.response.access_token = NoToken
    /\ result.response.refresh_token = NoToken
    /\ result.access_tokens = access_tokens
    /\ result.refresh_tokens = refresh_tokens
    /\ result.rng = rng

Succeeds(result) ==
    /\ result.response.status = 200
    /\ result.response.access_token \in DOMAIN result.access_tokens
    /\ result.response.access_token \notin DOMAIN access_tokens

(* C1: authorization codes are single-use: no code is exchanged for tokens more
   than once, and once a code has been exchanged every authorization_code
   request that presents it fails with invalid_grant / code_not_found and
   issues nothing. *)
C1_SingleUse ==
    \A c \in Codes :
        /\ ledger[c].wins <= 1
        /\ ledger[c].wins = 1 =>
              \A d \in ExchangeRequests(c) :
                  LET result == token_endpoint(d) IN
                  /\ Fails(result, "invalid_grant", "code_not_found")
                  /\ NothingIssued(result)
                  /\ result.authorization_codes = authorization_codes

(* a code was exchanged, and a token request that arrived afterwards is about
   to be handled: its exchange of that code is turned away *)
C1_Replayed ==
    \E c \in Codes : \E t \in Tasks :
        /\ ledger[c].wins = 1
        /\ pc[t] = "token_body" /\ c \notin overlap[t]
        /\ \A d \in ExchangeRequests(c) :
              Fails(token_endpoint(d), "invalid_grant", "code_not_found")

(* C2: of the concurrent token requests that present one code at most one is
   issued tokens: the exchange of a code mints one refresh token in all, and a
   request that was pending while another exchanged the code gets
   code_not_found whenever its body names that code. *)
C2_OneWinner ==
    /\ \A c \in Codes :
          Cardinality({k \in DOMAIN ledger : ledger[k].kind = "refresh"
                                             /\ ledger[k].source = c}) <= 1
    /\ \A t \in Tasks : \A c \in overlap[t] :
          /\ pc[t] = "token_body"
          /\ \A d \in ExchangeRequests(c) :
                LET result == token_endpoint(d) IN
                /\ Fails(result, "invalid_grant", "code_not_found")
                /\ NothingIssued(result)

(* a request was waiting for its body while another one exchanged the code:
   it is still to be handled, and its exchange of that code loses *)
C2_Raced ==
    \E c \in Codes : \E t \in Tasks :
        /\ ledger[c].wins = 1
        /\ pc[t] = "token_body" /\ c \in overlap[t]
        /\ token_endpoint(ExchangeData(c, "", "v1")).response.reason = "code_not_found"

AccessTokens == {a \in DOMAIN ledger : ledger[a].kind = "access"}
RefreshTokens == {r \in DOMAIN ledger : ledger[r].kind = "refresh"}
Bearer(a) == <<"Bearer", Urlsafe(a)>>
ProxyStates == {"messages_body", "messages_post", "sse_body", "sse_post", "sse_stream", "sse_relay"}
Forwarded == {"messages_post", "sse_post", "sse_stream", "sse_relay"}

(* the header carries no usable credentials *)
Absent(h) == h = <<>>
Malformed(h) == Len(h) # 2 \/ h[1] \notin {"Bearer", "bearer", "BEARER"}
ExpiredToken(k) ==
    \/ /\ k.fmt = "urlsafe"
       /\ k.id \in AccessTokens
       /\ ledger[k.id].fate # "live" \/ ledger[k.id].at + TOKEN_EXPIRY_SECONDS <= now
    \/ /\ k.fmt = "jwt"
       /\ "exp" \in DOMAIN k.payload
       /\ k.payload.exp <= now
TamperedToken(k) ==
    /\ k.fmt = "jwt"
    /\ k.hmac.key # SIGNING_KEY \/ k.hmac.payload # k.payload

(* C3: a proxied request whose Authorization header is absent, malformed, or
   carries an expired or tampered bearer token is answered 401 with the
   challenge WWW-Authenticate: Bearer and goes no further; a handler is past
   its guard, and a backend request has been sent, only for a request whose
   token verified to a subject. *)
C3_Unauthorized ==
    /\ \A h \in AnyHeader :
          (Absent(h) \/ Malformed(h) \/ ExpiredToken(h[2]) \/ TamperedToken(h[2])) =>
              LET guard == proxy_guard(h) IN
              /\ ~guard.proceed
              /\ guard.response.status = 401
              /\ guard.response.www_authenticate = "Bearer"
    /\ \A t \in Tasks :
          /\ pc[t] \in ProxyStates => user_id[t] \notin {None, ""}
          /\ sent[t] > 0 => pc[t] \in Forwarded

(* an expired token was turned away, and the request with a valid one was
   forwarded to the backend *)
C3_Rejected ==
    /\ \E a \in AccessTokens : ledger[a].fate = "expired"
    /\ pc["t1"] = "messages_post" /\ sent["t1"] = 1

(* the request passes the redirect_uri check and the PKCE check of the code *)
PassesChecks(c, d) ==
    /\ d.redirect_uri \in {"", authorization_codes[c].redirect_uri}
    /\ \/ authorization_codes[c].code_challenge = <<>>
       \/ /\ d.code_verifier # ""
          /\ authorization_codes[c].code_challenge
                \in {S256(d.code_verifier), S256Padded(d.code_verifier)}

(* the exchange succeeds and its access token is stored for the code's user *)
IssuedFor(result, c) ==
    /\ Succeeds(result)
    /\ result.access_tokens[result.response.access_token].user_id = ledger[c].user_id

(* an access token that a code exchange returned is accepted, while it is
   unexpired, as the user the code was minted for *)
ExchangedTokensVerify ==
    \A a \in AccessTokens :
        (ledger[a].source \in Codes /\ now < ledger[a].at + TOKEN_EXPIRY_SECONDS) =>
            verify_bearer_token(Bearer(a)).user_id = ledger[a].user_id

LiveBeforeExpiry(c) == ledger[c].fate = "live" /\ now < ledger[c].at + CODE_EXPIRY

(* C4 as stated: every exchange of a minted code before its expiry succeeds,
   and its access token, while unexpired, verifies as the code's user. *)
C4_Original ==
    /\ \A c \in Codes : LiveBeforeExpiry(c) =>
          /\ c \in DOMAIN authorization_codes
          /\ \A d \in ExchangeRequests(c) : IssuedFor(token_endpoint(d), c)
    /\ ExchangedTokensVerify

(* C4, amended: an exchange of a minted code before its expiry succeeds when
   the request's redirect_uri is absent or equal to the stored one and, for a
   code stored with a code_challenge, its code_verifier hashes to the
   challenge; the access token, while unexpired, verifies as the code's user. *)
C4_ExchangeYieldsUsableToken ==
    /\ \A c \in Codes : LiveBeforeExpiry(c) =>
          /\ c \in DOMAIN authorization_codes
          /\ \A d \in ExchangeRequests(c) :
                PassesChecks(c, d) => IssuedFor(token_endpoint(d), c)
    /\ ExchangedTokensVerify

(* a token from a code exchange was presented while unexpired, and the guard
   let the request through as the code's user *)
C4_Accepted ==
    \E a \in AccessTokens :
        /\ ledger[a].source \in Codes
        /\ now < ledger[a].at + TOKEN_EXPIRY_SECONDS
        /\ pc["t1"] = "messages_body"
        /\ user_id["t1"] = ledger[a].user_id
        /\ verify_bearer_token(Bearer(a)).user_id = user_id["t1"]

PkceCodes ==
    {c \in DOMAIN authorization_codes : authorization_codes[c].code_challenge # <<>>}
VerifierMatches(c, code_verifier) ==
    /\ code_verifier # ""
    /\ authorization_codes[c].code_challenge
          \in {S256(code_verifier), S256Padded(code_verifier)}
RedirectAccepted(c, d) ==
    d.redirect_uri \in {"", authorization_codes[c].redirect_uri}
NotExpired(c) == now <= ledger[c].at + CODE_EXPIRY

(* C5 as stated: for a code stored with a code_challenge an exchange succeeds
   only with a code_verifier whose S256 digest, padded or unpadded, equals the
   challenge; a wrong verifier is answered pkce_mismatch and a matching one
   succeeds. *)
C5_Original ==
    \A c \in PkceCodes : \A d \in ExchangeRequests(c) :
        LET result == token_endpoint(d) IN
        /\ result.response.status = 200 => VerifierMatches(c, d.code_verifier)
        /\ (d.code_verifier # "" /\ ~VerifierMatches(c, d.code_verifier)) =>
              Fails(result, "invalid_grant", "pkce_mismatch")
        /\ VerifierMatches(c, d.code_verifier) => Succeeds(result)

(* C5, amended: for a code stored with a code_challenge an exchange succeeds
   only with a code_verifier whose S256 digest, padded or unpadded, equals the
   challenge; among the requests that reach the PKCE check (redirect_uri
   absent or equal to the stored one, code not expired) a wrong verifier is
   answered pkce_mismatch with nothing issued and the code kept, and a
   matching one succeeds. *)
C5_Pkce ==
    \A c \in PkceCodes : \A d \in ExchangeRequests(c) :
        LET result == token_endpoint(d) IN
        /\ result.response.status = 200 => VerifierMatches(c, d.code_verifier)
        /\ (RedirectAccepted(c, d) /\ NotExpired(c)) =>
              /\ (d.code_verifier # "" /\ ~VerifierMatches(c, d.code_verifier)) =>
                    /\ Fails(result, "invalid_grant", "pkce_mismatch")
                    /\ NothingIssued(result)
                    /\ result.authorization_codes = authorization_codes
              /\ VerifierMatches(c, d.code_verifier) => Succeeds(result)

Exchange(c, code_verifier) ==
    [grant_type |-> "authorization_code", code |-> c, redirect_uri |-> "",
     code_verifier |-> code_verifier, refresh_token |-> NoToken]

(* two codes are stored, one with the unpadded and one with the padded
   challenge of the same verifier; that verifier redeems either and another
   verifier is turned away *)
C5_BothEncodings ==
    \E c1, c2 \in PkceCodes :
        /\ authorization_codes[c1].code_challenge = S256("v1")
        /\ authorization_codes[c2].code_challenge = S256Padded("v1")
        /\ S256("v1") # S256Padded("v1")
        /\ NotExpired(c1) /\ NotExpired(c2)
        /\ Succeeds(token_endpoint(Exchange(c1, "v1")))
        /\ Succeeds(token_endpoint(Exchange(c2, "v1")))
        /\ Fails(token_endpoint(Exchange(c2, "v2")), "invalid_grant", "pkce_mismatch")

PastExpiry(c) == ledger[c].fate = "live" /\ ledger[c].at + CODE_EXPIRY < now
Rejected(result, c) ==
    /\ Fails(result, "invalid_grant", "code_expired")
    /\ NothingIssued(result)
    /\ c \notin DOMAIN result.authorization_codes

(* C6 as stated: an exchange of a code after its expiry is answered
   invalid_grant / code_expired, deletes the code record and issues nothing. *)
C6_Original ==
    \A c \in Codes : PastExpiry(c) =>
        /\ c \in DOMAIN authorization_codes
        /\ \A d \in ExchangeRequests(c) : Rejected(token_endpoint(d), c)

(* C6, amended: an exchange of a code after its expiry, by a request whose
   redirect_uri is absent or equal to the stored one, is answered
   invalid_grant / code_expired, deletes the code record and issues nothing. *)
C6_ExpiredCode ==
    \A c \in Codes : PastExpiry(c) =>
        /\ c \in DOMAIN authorization_codes
        /\ \A d \in ExchangeRequests(c) :
              RedirectAccepted(c, d) => Rejected(token_endpoint(d), c)

(* a code that was never redeemed has been deleted by an exchange after its
   expiry *)
C6_Dropped ==
    \E c \in Codes :
        /\ ledger[c].fate = "expired" /\ ledger[c].wins = 0
        /\ c \notin DOMAIN authorization_codes

Usable(r) == ledger[r].fate = "live" /\ now <= ledger[r].at + REFRESH_TOKEN_EXPIRY_SECONDS

(* C7: a refresh_token grant with a stored, unexpired refresh token answers
   200 with a new access token for the same user and no refresh_token field,
   and leaves the refresh-token store as it was: the token stays valid for
   further refreshes until its own expiry. *)
C7_RefreshKept ==
    \A r \in RefreshTokens : Usable(r) =>
        /\ r \in DOMAIN refresh_tokens
        /\ refresh_tokens[r].expires_at = ledger[r].at + REFRESH_TOKEN_EXPIRY_SECONDS
        /\ \A d \in RefreshRequests(r) :
              LET result == token_endpoint(d) IN
              /\ Succeeds(result)
              /\ result.response.refresh_token = NoToken
              /\ result.response.access_token \notin DOMAIN access_tokens
              /\ result.access_tokens[result.response.access_token].user_id
                    = ledger[r].user_id
              /\ \A a \in DOMAIN access_tokens :
                    result.access_tokens[a] = access_tokens[a]
              /\ result.refresh_tokens = refresh_tokens
              /\ result.authorization_codes = authorization_codes

(* an access token was issued by a refresh, and the refresh token it came
   from is still stored and can be used again *)
C7_Refreshed ==
    \E a \in AccessTokens : \E r \in RefreshTokens :
        /\ ledger[a].source = r
        /\ r \in DOMAIN refresh_tokens
        /\ \E d \in RefreshRequests(r) : Succeeds(token_endpoint(d))

(* C8: for a bearer token that is a key of the access-token store,
   verify_bearer_token returns the record's user_id and leaves the store alone
   if the record is unexpired; if it is expired the record is deleted and the
   verification fails. *)
C8_StoredToken ==
    \A a \in DOMAIN access_tokens :
        LET verified == verify_bearer_token(Bearer(a)) IN
        IF access_tokens[a].expires_at > now
        THEN /\ verified.user_id = access_tokens[a].user_id
             /\ verified.access_tokens = access_tokens
        ELSE /\ verified.user_id = None
             /\ a \notin DOMAIN verified.access_tokens
             /\ \A b \in DOMAIN access_tokens \ {a} :
                   /\ b \in DOMAIN verified.access_tokens
                   /\ verified.access_tokens[b] = access_tokens[b]

(* one stored token has been deleted by a verification after its expiry while
   another one is stored and still verifies *)
C8_Lazy ==
    \E a, b \in AccessTokens :
        /\ ledger[a].fate = "expired"
        /\ a \notin DOMAIN access_tokens
        /\ b \in DOMAIN access_tokens
        /\ verify_bearer_token(Bearer(b)).user_id = access_tokens[b].user_id

NotStored ==
    JwtTokens \cup {Urlsafe(n) : n \in Presentable \ DOMAIN access_tokens}
SignatureValid(k) ==
    k.fmt = "jwt" /\ k.hmac = [key |-> SIGNING_KEY, payload |-> k.payload]
ExpInFuture(k) == "exp" \in DOMAIN k.payload /\ k.payload.exp > now
Subject(k) == IF "sub" \in DOMAIN k.payload THEN k.payload.sub ELSE None

(* C9 as stated: a bearer token that is not a key of the access-token store
   is accepted if and only if it is a signed token whose signature validates
   against the signing key and whose exp claim is in the future; an accepted
   token yields its subject claim, any other one fails, and the store is not
   touched. *)
C9_SignedToken ==
    \A k \in NotStored :
        LET verified == verify_bearer_token(<<"Bearer", k>>) IN
        /\ verified.access_tokens = access_tokens
        /\ IF SignatureValid(k) /\ ExpInFuture(k)
           THEN verified.user_id = Subject(k)
           ELSE verified.user_id = None

AuthorizeProbes ==
    [response_type : {"code", "token", "Code", ""},
     redirect_uri : {CLAUDE_CALLBACK_URL, CLAUDE_CALLBACK_URL \o "/x",
                     "https://claude.ai/api/mcp/auth", "https://evil.example/cb", ""},
     code_challenge : {<<>>, S256("v1")},
     uid : Users]
Probe(q) ==
    authorize(q.response_type, "claude", q.redirect_uri, "xyz", "",
              q.code_challenge, IF q.code_challenge = <<>> THEN "" ELSE "S256", q.uid)

(* C10: /authorize mints a code only when response_type is "code" and
   redirect_uri equals the configured callback URL; any other request is
   answered 400, unsupported_response_type when the response type is wrong
   and invalid_redirect_uri otherwise, and leaves the three stores as they
   were. *)
C10_AuthorizeChecks ==
    \A q \in AuthorizeProbes :
        LET result == Probe(q) IN
        IF q.response_type = "code" /\ q.redirect_uri = CLAUDE_CALLBACK_URL
        THEN /\ result.response.status = 200
             /\ result.response.code \notin DOMAIN authorization_codes
             /\ result.response.code \in DOMAIN result.authorization_codes
        ELSE /\ result.response.status = 400
             /\ result.response.error =
                   IF q.response_type # "code" THEN "unsupported_response_type"
                   ELSE "invalid_redirect_uri"
             /\ result.authorization_codes = authorization_codes
             /\ result.access_tokens = access_tokens
             /\ result.refresh_tokens = refresh_tokens
             /\ result.rng = rng

(* a code has been minted and redeemed, so all three stores hold records,
   and a request with a longer redirect_uri is refused *)
C10_Refused ==
    /\ Codes # {}
    /\ DOMAIN authorization_codes # {}
    /\ DOMAIN access_tokens # {}
    /\ DOMAIN refresh_tokens # {}
    /\ \E q \in AuthorizeProbes :
          /\ q.response_type = "code"
          /\ q.redirect_uri = CLAUDE_CALLBACK_URL \o "/x"
          /\ Probe(q).response.error = "invalid_redirect_uri"

Minting == {q \in AuthorizeProbes : Probe(q).response.status = 200}

(* C11: a successful /authorize request inserts exactly one new record into
   the authorization-code store, expiring ten minutes after the request and
   bound to the drawn user, and changes nothing else: the code records that
   were stored, the access-token store and the refresh-token store stay as
   they were. *)
C11_OneRecordInserted ==
    \A q \in Minting :
        LET result == Probe(q)
            code == result.response.code
        IN  /\ code \notin DOMAIN authorization_codes
            /\ DOMAIN result.authorization_codes = DOMAIN authorization_codes \cup {code}
            /\ result.authorization_codes[code].expires_at = now + CODE_EXPIRY
            /\ result.authorization_codes[code].user_id = q.uid
            /\ result.authorization_codes[code].redirect_uri = q.redirect_uri
            /\ result.authorization_codes[code].code_challenge = q.code_challenge
            /\ \A c \in DOMAIN authorization_codes :
                  result.authorization_codes[c] = authorization_codes[c]
            /\ result.access_tokens = access_tokens
            /\ result.refresh_tokens = refresh_tokens

(* a second code was minted later than the first, and the first is still
   stored with the expiry it was given *)
C11_Inserted ==
    \E c1, c2 \in DOMAIN authorization_codes :
        /\ ledger[c1].at < ledger[c2].at
        /\ authorization_codes[c1].expires_at = ledger[c1].at + CODE_EXPIRY
        /\ authorization_codes[c2].expires_at = ledger[c2].at + CODE_EXPIRY

OtherGrants == {"client_credentials", "password", "Authorization_Code"}

(* requests with the grant type g that carry every code and refresh token *)
GrantRequests(g) ==
    { [grant_type |-> g, code |-> c, redirect_uri |-> "",
       code_verifier |-> "v1", refresh_token |-> r] :
        c \in Presentable \cup {NoToken}, r \in Presentable \cup {NoToken} }

Untouched(result) ==
    /\ result.authorization_codes = authorization_codes
    /\ result.access_tokens = access_tokens
    /\ result.refresh_tokens = refresh_tokens
    /\ result.rng = rng

(* C12: a token request without grant_type is answered 400 invalid_request
   and one with a grant type other than authorization_code and refresh_token
   400 unsupported_grant_type, whatever codes or tokens it carries, stored
   ones included; the stores are left as they were and nothing is drawn. *)
C12_GrantType ==
    /\ \A d \in GrantRequests("") :
          LET result == token_endpoint(d) IN
          /\ result.response.status = 400
          /\ result.response.error = "invalid_request"
          /\ NothingIssued(result)
          /\ Untouched(result)
    /\ \A g \in OtherGrants : \A d \in GrantRequests(g) :
          LET result == token_endpoint(d) IN
          /\ result.response.status = 400
          /\ result.response.error = "unsupported_grant_type"
          /\ NothingIssued(result)
          /\ Untouched(result)

(* a live code and a live refresh token are stored, and a request that carries
   both under the grant type client_credentials is refused *)
C12_Refused ==
    \E c \in DOMAIN authorization_codes : \E r \in DOMAIN refresh_tokens :
        /\ ~code_expired(authorization_codes[c])
        /\ ~refresh_expired(refresh_tokens[r])
        /\ token_endpoint([grant_type |-> "client_credentials", code |-> c,
                           redirect_uri |-> "", code_verifier |-> "v1",
                           refresh_token |-> r]).response.error
              = "unsupported_grant_type"

(* C13: a refresh_token grant whose refresh token is missing or not stored
   fails with invalid_grant / refresh_token_not_found and changes nothing; one
   whose stored refresh token is expired fails with invalid_grant /
   refresh_token_expired and deletes that record and nothing else; neither
   creates an access token. *)
C13_RefreshRefused ==
    /\ \A r \in (Presentable \cup {NoToken}) \ DOMAIN refresh_tokens :
          LET result == token_endpoint(RefreshData(r)) IN
          /\ Fails(result, "invalid_grant", "refresh_token_not_found")
          /\ NothingIssued(result)
          /\ Untouched(result)
    /\ \A r \in DOMAIN refresh_tokens :
          refresh_tokens[r].expires_at < now =>
              LET result == token_endpoint(RefreshData(r)) IN
              /\ Fails(result, "invalid_grant", "refresh_token_expired")
              /\ result.response.access_token = NoToken
              /\ DOMAIN result.refresh_tokens = DOMAIN refresh_tokens \ {r}
              /\ \A k \in DOMAIN result.refresh_tokens :
                    result.refresh_tokens[k] = refresh_tokens[k]
              /\ result.access_tokens = access_tokens
              /\ result.authorization_codes = authorization_codes
              /\ result.rng = rng

(* a refresh token was presented after its expiry and its record deleted, and
   presenting it again finds nothing *)
C13_Expired ==
    \E r \in RefreshTokens :
        /\ ledger[r].fate = "expired"
        /\ r \notin DOMAIN refresh_tokens
        /\ Fails(token_endpoint(RefreshData(r)), "invalid_grant", "refresh_token_not_found")

(* C14: the code a successful /authorize request receives differs from every
   code handed out before, stored or not, so the codes of any two requests
   differ and an insert never overwrites a record: every stored code record
   is the one written for the caller it was minted for. *)
C14_DistinctCodes ==
    /\ \A q \in Minting : Probe(q).response.code \notin DOMAIN ledger
    /\ \A c \in DOMAIN authorization_codes :
          /\ c \in Codes
          /\ ledger[c].fate = "live"
          /\ authorization_codes[c].user_id = ledger[c].user_id
          /\ authorization_codes[c].expires_at = ledger[c].at + CODE_EXPIRY

(* two callers hold codes at the same time, minted while a token request was
   waiting for its body *)
C14_TwoCallers ==
    \E c1, c2 \in DOMAIN authorization_codes :
        /\ c1 # c2
        /\ authorization_codes[c1].user_id # authorization_codes[c2].user_id
        /\ \E t \in Tasks : pc[t] = "token_body"

InHand == {"token_found", "guard_found"}

(* C15: a request's work on the stores is one uninterrupted step: while a
   handler holds a record it looked up and has not yet done its deletes and
   inserts, the stores are exactly as they were at the lookup and no other
   request task is in the same position. *)
C15_AtomicStep ==
    \A t \in Tasks :
        pc[t] \in InHand =>
            /\ looked[t].seen = Stored
            /\ \A u \in Tasks \ {t} : pc[u] \notin InHand

(* the token handler has found the code it was asked to exchange while a
   verified POST /messages is waiting for its body *)
C15_Concurrent ==
    /\ pc["t1"] = "token_found"
    /\ looked["t1"].request.code \in DOMAIN authorization_codes
    /\ pc["t2"] = "messages_body"

(* C16: while the body of an authenticated GET /sse response is being sent
   and the backend has written chunks the caller has not received yet, the
   backend stream is still open, so that the chunks can be relayed; what has
   been delivered is the backend's chunks, in their order and unmodified *)
C16_StreamOpenWhileRelaying ==
    \A t \in Tasks :
        pc[t] = "sse_relay" /\ caller = "connected" =>
            /\ Len(delivered) <= Len(emitted)
            /\ delivered = SubSeq(emitted, 1, Len(delivered))
            /\ Len(delivered) < Len(emitted) => upstream[t] = "open"

(* C17: after a GET /sse subscription has terminated, whichever side closed,
   no backend connection opened for it remains open; and a subscription opens
   one backend connection, never a second one *)
C17_ConnectionReleased ==
    \A t \in Tasks :
        /\ pc[t] = "idle" => upstream[t] = "closed"
        /\ pc[t] \in {"sse_stream", "sse_relay"} => sent[t] = 1

(* a subscription whose caller has left after the backend wrote chunks, the
   response not yet ended *)
C17_CallerGone ==
    /\ pc["t1"] = "sse_relay"
    /\ caller = "gone"
    /\ emitted # <<>>
    /\ upstream["t1"] = "closed"

(* C18: a backend request that fails to connect is answered with 502; an
   inbound proxied request never has more than one backend request, and the
   step that ends a forwarded request, failed or not, changes no store *)
C18_NoRetry ==
    [][ /\ \A outcome \in BackendOutcomes :
             outcome.failed => proxy_response(outcome) = BadGateway
        /\ \A t \in Tasks :
             /\ sent'[t] <= 1
             /\ pc[t] \in Forwarded /\ pc'[t] # pc[t] => stores' = stores ]_vars

(* a forwarded request waits for the backend while the stores hold sessions:
   the backend request may now fail *)
C18_Forwarded ==
    /\ pc["t1"] \in {"messages_post", "sse_post", "sse_stream"}
    /\ sent["t1"] = 1
    /\ DOMAIN access_tokens # {}
    /\ DOMAIN refresh_tokens # {}

(* the bodies of token requests: every grant request form-encoded and as a
   JSON object, a JSON array and a text that is not JSON *)
AnyTokenBody ==
    UNION { {FormBody(d), JsonBody(d)} :
              d \in UNION { ExchangeRequests(c) \cup GrantRequests("")
                              \cup GrantRequests("client_credentials")
                              \cup RefreshRequests(c) :
                              c \in Presentable \cup {NoToken} } }
    \cup { NotJson, JsonArray }

OAuthErrors == {"invalid_request", "invalid_grant", "invalid_client", "unsupported_grant_type"}

(* C19: every response of the token endpoint that is not a success carries
   an error code of the OAuth2 vocabulary, for every request body and in
   every state of the stores *)
C19_ErrorVocabulary ==
    \A body \in AnyTokenBody :
        LET response == token_request(body).response
        IN  response.status # 200 => response.error \in OAuthErrors

(* sets of grant parameters: each parameter given with a value, given blank,
   or not given at all *)
Given ==
    { FieldNames, FieldNames \ {"redirect_uri"}, {"grant_type", "code"},
      {"grant_type", "refresh_token"}, {} }

GrantParams ==
    { [name \in given |-> d[name]] :
        given \in Given,
        d \in UNION { { ExchangeData(c, "", "v1"), RefreshData(c) } :
                       c \in Presentable \cup {NoToken} }
              \cup { ExchangeData(1, CLAUDE_CALLBACK_URL, ""),
                      ExchangeData(1, "https://evil.example/cb", "v2"),
                      [NoData EXCEPT !.grant_type = "client_credentials"] } }

FormTypes == {FormType, FormTypeCharset}

(* C20: for every set of grant parameters and in every state of the stores,
   the parameters sent form-encoded and sent as a JSON object get the same
   response and leave the same stores *)
C20_SameNormalisation ==
    \A params \in GrantParams, content_type \in FormTypes :
        LET form == [content_type |-> content_type, text |-> FormText(params)]
            json == JsonBody(params)
        IN  token_request(form) = token_request(json)

(* a live code that either encoding of its exchange turns into tokens, the
   JSON object carrying a blank redirect_uri that the form parser leaves out *)
C20_BothIssue ==
    \E c \in DOMAIN authorization_codes :
        LET params == ExchangeData(c, "", "v1")
        IN  /\ "redirect_uri" \notin DOMAIN request_data(FormBody(params)).members
            /\ "redirect_uri" \in DOMAIN request_data(JsonBody(params)).members
            /\ token_request(FormBody(params)).response.status = 200
            /\ token_request(JsonBody(params)).response.status = 200

(* every header and body the token endpoint of gateway.py can be sent *)
AnyClientText == {None, "", "client1", "client2", "secret1", "secret2", "se:cret", "ghost"}

AnyClientHeader ==
    { NoHeader, <<"Basic", NotBase64>>, <<"Basic", b64encode(<<"client1">>)>> }
    \cup { <<scheme, b64encode(<<client_id>> \o secret)>> :
             scheme \in {"Basic", "basic", "Bearer"},
             client_id \in {"", "client1", "client2", "ghost"},
             secret \in {<<"">>, <<"secret1">>, <<"secret2">>, <<"se", "cret">>} }

AnyClientRequest ==
    { NoTokenRequest }
    \cup { TokenRequest(grant_type, client_id, client_secret) :
             grant_type \in {"client_credentials", "authorization_code", "refresh_token", ""},
             client_id \in {None, "", "client1", "client2"},
             client_secret \in {None, "", "secret1", "secret2", "se:cret"} }

(* the pairs registered in MCP_OAUTH_CLIENTS: every entry with a colon, cut
   at its first colon *)
RegisteredPairs ==
    { <<clients[i].segments[1], join(Tail(clients[i].segments))>> :
        i \in {j \in DOMAIN clients : Len(clients[j].segments) >= 2} }

(* the pair a request supplies: that of a Basic header which names a client,
   otherwise that of the body *)
NamesClient(auth_header) ==
    /\ auth_header[1] = "Basic"
    /\ auth_header[2].b64
    /\ Len(auth_header[2].of) >= 2
    /\ auth_header[2].of[1] # ""

SuppliedPair(auth_header, posted) ==
    IF NamesClient(auth_header)
    THEN <<auth_header[2].of[1], join(Tail(auth_header[2].of))>>
    ELSE <<posted.client_id, posted.client_secret>>

(* C21: the token endpoint of gateway.py answers 200 with a bearer token only
   to grant_type client_credentials with a supplied pair that is registered;
   any other grant_type gets 400 unsupported_grant_type; client_credentials
   with a missing part, an unknown id or a wrong secret gets 401
   invalid_client *)
C21_ClientCredentials ==
    \A auth_header \in AnyClientHeader, posted \in AnyClientRequest :
        LET response == client_token_endpoint(auth_header, posted)
            pair == SuppliedPair(auth_header, posted)
            complete == ~falsy(pair[1]) /\ ~falsy(pair[2])
        IN  /\ response.status = 200 =>
                /\ posted.grant_type = "client_credentials"
                /\ pair \in RegisteredPairs
                /\ response.token_type = "Bearer"
                /\ client_verify_bearer_token(<<"Bearer", response.access_token>>) = pair[1]
            /\ posted.grant_type # "client_credentials" =>
                response.status = 400 /\ response.detail = "unsupported_grant_type"
            /\ (posted.grant_type = "client_credentials"
                  /\ (~complete \/ pair \notin RegisteredPairs)) =>
                response.status = 401 /\ response.detail = "invalid_client"
            /\ response.status \in {200, 400, 401}

(* a token has been granted on a Basic header whose secret holds a colon,
   while the environment registers two clients *)
C21_Granted ==
    /\ Cardinality(RegisteredPairs) = 2
    /\ \E token \in granted : token.payload.sub = "client2"

Subjects == {"client1", "client2", "test_client", ""}

(* C22: a token made by create_access_token for a subject at any time up to
   now, presented as Bearer to verify_bearer_token of gateway.py, gives the
   subject back, its payload carrying scope mcp:full, when the process still
   has the key it was signed with and now is before its exp; it gives None
   when now is after its exp or the process has another key.  The same holds
   of the token the token endpoint returned. *)
C22_RoundTrip ==
    /\ \A subject \in Subjects, at \in 0..now, secret \in SigningKeys :
          LET payload == create_access_token(subject, at)
              token == jwt_encode(payload, secret)
              verified == client_verify_bearer_token(<<"Bearer", token>>)
          IN  /\ (secret = signing_key /\ now < payload.exp) =>
                    /\ verified = subject
                    /\ jwt_decode(token, signing_key).valid
                    /\ jwt_decode(token, signing_key).payload.scope = "mcp:full"
              /\ (secret # signing_key \/ now > payload.exp) => verified = None
    /\ \A token \in granted :
          LET verified == client_verify_bearer_token(<<"Bearer", token>>)
          IN  IF token.hmac.key = signing_key /\ now < token.payload.exp
              THEN verified = token.payload.sub
              ELSE verified = None

(* the token endpoint returned a token, the process then started again with
   another key, and the token is still before its exp *)
C22_OtherKey ==
    \E token \in granted :
        /\ token.hmac.key # signing_key
        /\ now < token.payload.exp
        /\ client_verify_bearer_token(<<"Bearer", token>>) = None

----------------------------------------------------------------------------
(* the code's expiry has passed, by the time it was minted *)
Expired(c) == ledger[c].at + CODE_EXPIRY < now
(* the request's code_verifier is what the code's challenge asks for *)
PkcePassed(c, d) ==
    authorization_codes[c].code_challenge = <<>> \/ VerifierMatches(c, d.code_verifier)
(* the request failed and changed nothing *)
Refused(result, reason) ==
    /\ Fails(result, "invalid_grant", reason)
    /\ NothingIssued(result)
    /\ result.authorization_codes = authorization_codes

(* C23: the authorization_code grant checks, in this order, that the code is
   stored, that a supplied redirect_uri equals the stored one, that the code
   has not expired, and the PKCE verifier; the first check that fails decides
   the response and the side effect.  A stored code presented with another
   redirect_uri is answered redirect_uri_mismatch whether or not it has
   expired, and is left in the store; only a request that passes the
   redirect_uri check deletes an expired code. *)
C23_CheckOrder ==
    \A c \in Presentable \cup {NoToken} : \A d \in ExchangeRequests(c) :
        LET result == token_endpoint(d) IN
        IF c \notin DOMAIN authorization_codes
        THEN Refused(result, "code_not_found")
        ELSE IF ~RedirectAccepted(c, d)
        THEN Refused(result, "redirect_uri_mismatch")
        ELSE IF Expired(c)
        THEN /\ Rejected(result, c)
             /\ result.authorization_codes = Del(authorization_codes, c)
        ELSE IF ~PkcePassed(c, d)
        THEN \/ d.code_verifier = "" /\ Refused(result, "code_verifier_required")
             \/ d.code_verifier # "" /\ Refused(result, "pkce_mismatch")
        ELSE /\ Succeeds(result)
             /\ result.authorization_codes = Del(authorization_codes, c)

(* an expired code stored with a challenge is presented: with another
   redirect_uri and no verifier it is answered redirect_uri_mismatch and
   stays, with the stored redirect_uri and no verifier it is answered
   code_expired and deleted *)
C23_ExpiredAndMismatched ==
    \E c \in PkceCodes :
        /\ Expired(c)
        /\ pc["t1"] = "token_body"
        /\ Refused(token_endpoint(ExchangeData(c, "https://evil.example/cb", "")),
                   "redirect_uri_mismatch")
        /\ Rejected(token_endpoint(ExchangeData(c, CLAUDE_CALLBACK_URL, "")), c)

----------------------------------------------------------------------------
(* every record of the store is, by the history, a record of this kind made
   for the user and with the scope of the code it descends from *)
Carries(store, kind) ==
    \A k \in DOMAIN store :
        /\ k \in DOMAIN ledger
        /\ ledger[k].kind = kind /\ ledger[k].fate = "live"
        /\ store[k].user_id = ledger[k].user_id
        /\ store[k].scope = ledger[k].scope
        /\ store[k].user_id \in Users

(* the records of `after` are those of `before`, and new ones that all carry
   the user_id and scope of `origin` *)
CopiedFrom(origin, before, after) ==
    \A k \in DOMAIN after :
        IF k \in DOMAIN before
        THEN after[k] = before[k]
        ELSE after[k].user_id = origin.user_id /\ after[k].scope = origin.scope

NoOrigin == [user_id |-> None, scope |-> ""]

(* the record the request presents: the stored code of an exchange, the stored
   refresh token of a refresh *)
Origin(d) ==
    IF d.grant_type = "authorization_code" /\ d.code \in DOMAIN authorization_codes
    THEN authorization_codes[d.code]
    ELSE IF d.grant_type = "refresh_token" /\ d.refresh_token \in DOMAIN refresh_tokens
    THEN refresh_tokens[d.refresh_token]
    ELSE NoOrigin

(* C24: every access-token record and every refresh-token record in the stores
   carries the user_id and scope of an authorization code that /authorize
   minted: a code exchange copies the code's user_id and scope into both new
   records, a refresh copies the refresh token's user_id and scope into the
   new access token, and no request makes a token record with another subject
   or scope. *)
C24_SubjectAndScope ==
    /\ Carries(authorization_codes, "code")
    /\ Carries(access_tokens, "access")
    /\ Carries(refresh_tokens, "refresh")
    /\ \A k \in Presentable \cup {NoToken} :
          \A d \in ExchangeRequests(k) \cup RefreshRequests(k) :
             LET result == token_endpoint(d)
                 origin == Origin(d)
             IN  /\ CopiedFrom(origin, access_tokens, result.access_tokens)
                 /\ CopiedFrom(origin, refresh_tokens, result.refresh_tokens)
                 /\ result.response.status = 200 =>
                       /\ origin # NoOrigin
                       /\ DOMAIN result.access_tokens # DOMAIN access_tokens
                       /\ d.grant_type = "authorization_code" =>
                             DOMAIN result.refresh_tokens # DOMAIN refresh_tokens
                       /\ result.response.scope = origin.scope

(* an access token that a refresh issued is stored for user_b with the scope
   claudeai of the code its refresh token came from *)
C24_Refreshed ==
    \E k \in DOMAIN access_tokens :
        /\ ledger[k].source \in DOMAIN refresh_tokens
        /\ access_tokens[k].user_id = "user_b"
        /\ access_tokens[k].scope = "claudeai"
        /\ refresh_tokens[ledger[k].source].scope = "claudeai"

----------------------------------------------------------------------------
(* MCP_OAUTH_DISABLE_PKCE has been set to a value that disables PKCE *)
FlagSet == environ \in {"1", "true", "TRUE"}

(* C25: PKCE verification is skipped only when MCP_OAUTH_DISABLE_PKCE has been
   set.  With the flag unset (or set to another value) no exchange of a code
   stored with a code_challenge succeeds without a code_verifier that matches
   the challenge; with the flag set the exchange of such a code does not look
   at the verifier: a request that passes the redirect_uri and expiry checks
   succeeds with a matching, a wrong or no verifier. *)
C25_PkceGate ==
    \A c \in PkceCodes : \A d \in ExchangeRequests(c) :
        LET result == token_endpoint(d) IN
        /\ ~FlagSet =>
              (result.response.status = 200 => VerifierMatches(c, d.code_verifier))
        /\ (FlagSet /\ RedirectAccepted(c, d) /\ ~Expired(c)) =>
              /\ Succeeds(result)
              /\ result.authorization_codes = Del(authorization_codes, c)
        /\ FlagSet =>
              \A code_verifier \in {"", "v1", "v2"} :
                 token_endpoint([d EXCEPT !.code_verifier = code_verifier]) = result

(* the gateway runs with the flag set, holds an unexpired code stored with a
   challenge, and a request for it with no verifier and one with a wrong
   verifier are both answered with tokens *)
C25_Bypassed ==
    \E c \in PkceCodes :
        /\ FlagSet /\ ~Expired(c)
        /\ pc["t1"] = "token_body"
        /\ Succeeds(token_endpoint(Exchange(c, "")))
        /\ Succeeds(token_endpoint(Exchange(c, "v2")))
        /\ ~VerifierMatches(c, "v2")

----------------------------------------------------------------------------
(* the keys that left a store *)
Left(before, after) == DOMAIN before \ DOMAIN after
(* the records that stayed are as they were *)
Kept(before, after) ==
    \A k \in DOMAIN before \cap DOMAIN after : after[k] = before[k]
(* a set with the key the request presents, empty if it presents none *)
CodeOf(d) == IF d.grant_type = "authorization_code" THEN {d.code} ELSE {}
RefreshOf(d) == IF d.grant_type = "refresh_token" THEN {d.refresh_token} ELSE {}
TokenOf(h) == IF Len(h) = 2 /\ h[2].fmt = "urlsafe" THEN {h[2].id} ELSE {}

(* what each handler removes, for every request it can be sent *)
RemovesOwnKey ==
    /\ \A d \in TokenData :
             LET result == token_endpoint(d) IN
             /\ Left(authorization_codes, result.authorization_codes) \subseteq CodeOf(d)
             /\ Left(refresh_tokens, result.refresh_tokens) \subseteq RefreshOf(d)
             /\ Left(access_tokens, result.access_tokens) = {}
             /\ Left(authorization_codes, result.authorization_codes) # {} =>
                    \/ result.response.status = 200
                    \/ Fails(result, "invalid_grant", "code_expired")
             /\ Left(refresh_tokens, result.refresh_tokens) # {} =>
                    Fails(result, "invalid_grant", "refresh_token_expired")
             /\ Kept(authorization_codes, result.authorization_codes)
             /\ Kept(refresh_tokens, result.refresh_tokens)
             /\ Kept(access_tokens, result.access_tokens)
    /\ \A h \in Headers :
          LET verified == verify_bearer_token(h) IN
          /\ Left(access_tokens, verified.access_tokens) \subseteq TokenOf(h)
          /\ Left(access_tokens, verified.access_tokens) # {} =>
                /\ verified.user_id = None
                /\ \A a \in TokenOf(h) : access_tokens[a].expires_at <= now
          /\ Kept(access_tokens, verified.access_tokens)
    /\ \A request \in AuthorizeRequests, uid \in Users :
          LET result == authorize(request.response_type, "claude", request.redirect_uri,
                                  "xyz", request.scope, request.code_challenge,
                                  request.code_challenge_method, uid)
          IN  /\ Left(authorization_codes, result.authorization_codes) = {}
              /\ result.access_tokens = access_tokens
              /\ result.refresh_tokens = refresh_tokens

(* what one step of the gateway removes: at most one record, none while only
   time passes, and the records that stay are as they were *)
RemovesOneKey ==
    LET left == Left(authorization_codes, authorization_codes')
                   \cup Left(access_tokens, access_tokens')
                   \cup Left(refresh_tokens, refresh_tokens')
    IN  /\ Cardinality(left) <= 1
        /\ now' # now => left = {}
        /\ Kept(authorization_codes, authorization_codes')
        /\ Kept(access_tokens, access_tokens')
        /\ Kept(refresh_tokens, refresh_tokens')

(* C26: expiry is lazy and keyed.  A record leaves a store only in a request
   that presents its own key: a successful or expired code exchange removes
   that code, an expired refresh removes that refresh token, a bearer check of
   an expired token removes that access token.  No request removes a record
   under another key and the passing of time removes none, so a record that
   is not presented again stays in its store after it has expired. *)
C26_LazyKeyed == []RemovesOwnKey /\ [][RemovesOneKey]_vars

(* at the end of the clock an expired code, an expired access token and an
   expired refresh token are all still stored, while another code was deleted
   when it was exchanged *)
C26_Abandoned ==
    /\ now = MaxTime
    /\ \E c \in DOMAIN authorization_codes : authorization_codes[c].expires_at < now
    /\ \E a \in DOMAIN access_tokens : access_tokens[a].expires_at < now
    /\ \E r \in DOMAIN refresh_tokens : refresh_tokens[r].expires_at < now
    /\ \E c \in Codes : ledger[c].fate = "exchanged" /\ c \notin DOMAIN authorization_codes

----------------------------------------------------------------------------
(* the reasons with which the redirect_uri check and the PKCE check fail *)
Retryable == {"redirect_uri_mismatch", "code_verifier_required", "pkce_mismatch"}

(* the request for the code c with the redirect_uri stored with c and the
   verifier of the model's PKCE clients *)
Corrected(c) == ExchangeData(c, authorization_codes[c].redirect_uri, "v1")

(* C27: an authorization_code exchange that fails with redirect_uri_mismatch,
   code_verifier_required or pkce_mismatch leaves all three stores unchanged.
   The code is not used up: while it is unexpired the request with corrected
   parameters succeeds, and since the failed request changes nothing it can be
   repeated any number of times with the same answer. *)
C27_FailedExchange ==
    \A c \in DOMAIN authorization_codes : \A d \in ExchangeRequests(c) :
        LET result == token_endpoint(d) IN
        (result.response.status = 400 /\ result.response.reason \in Retryable) =>
            /\ Untouched(result)
            /\ c \in DOMAIN result.authorization_codes
            /\ ~Expired(c) =>
                  /\ Succeeds(token_endpoint(Corrected(c)))
                  /\ c \notin DOMAIN token_endpoint(Corrected(c)).authorization_codes

(* time has passed since an unexpired code with a challenge was minted; a
   request with another redirect_uri, one without verifier and one with a
   wrong verifier are all turned away, and the corrected request succeeds *)
C27_Retry ==
    \E c \in PkceCodes :
        /\ now = ledger[c].at + CODE_EXPIRY
        /\ pc["t1"] = "token_body"
        /\ Refused(token_endpoint(ExchangeData(c, "https://evil.example/cb", "v1")),
                   "redirect_uri_mismatch")
        /\ Refused(token_endpoint(Exchange(c, "")), "code_verifier_required")
        /\ Refused(token_endpoint(Exchange(c, "v2")), "pkce_mismatch")
        /\ Succeeds(token_endpoint(Corrected(c)))

----------------------------------------------------------------------------
(* a code record without the client_id that line 189 stores in it and that no
   line reads *)
Blind(auth_data) == [name \in DOMAIN auth_data \ {"client_id"} |-> auth_data[name]]

(* two results of /authorize that differ at most in the stored client_id *)
SameButClient(one, other) ==
    /\ one.response = other.response
    /\ one.access_tokens = other.access_tokens
    /\ one.refresh_tokens = other.refresh_tokens
    /\ one.rng = other.rng
    /\ DOMAIN one.authorization_codes = DOMAIN other.authorization_codes
    /\ \A c \in DOMAIN one.authorization_codes :
          Blind(one.authorization_codes[c]) = Blind(other.authorization_codes[c])

(* the request with each way of naming the client in the body *)
NamingClient(params) ==
    {params} \cup {WithClient(params, pair[1], pair[2]) : pair \in ClientPairs}

(* the grant requests whose outcome is compared: for every code and refresh
   token a caller can present, an exchange that passes the checks when the
   code is stored, and a refresh *)
ClientProbes ==
    UNION { {ExchangeData(k, CLAUDE_CALLBACK_URL, "v1"), RefreshData(k)} :
              k \in Presentable \cup {NoToken} }

(* C28: in the authorization-code gateway the outcome of /authorize and of
   /oauth/token does not depend on client_id or client_secret.  Two requests
   that differ only in those values get the same response and make the same
   store changes (the code record keeps the client_id it was asked with, which
   nothing reads); a code minted for one client_id is exchanged by a request
   naming any other client_id or none; the registered client credentials are
   not consulted. *)
C28_ClientBlind ==
    /\ \A request \in AuthorizeRequests, uid \in Users :
       \A client_id \in {"client1", "other", ""} :
          SameButClient(
              authorize(request.response_type, "claude", request.redirect_uri, "xyz",
                        request.scope, request.code_challenge,
                        request.code_challenge_method, uid),
              authorize(request.response_type, client_id, request.redirect_uri, "xyz",
                        request.scope, request.code_challenge,
                        request.code_challenge_method, uid))
    /\ \A d \in ClientProbes :
          LET form == token_request(FormBody(d))
              json == token_request(JsonBody(d))
          IN  \A pair \in ClientPairs :
                 /\ token_request(FormBody(WithClient(d, pair[1], pair[2]))) = form
                 /\ token_request(JsonBody(WithClient(d, pair[1], pair[2]))) = json
    /\ \A c \in DOMAIN authorization_codes : ~Expired(c) =>
          \A named \in NamingClient(Corrected(c)) :
             /\ Succeeds(token_request(FormBody(named)))
             /\ c \notin DOMAIN token_request(FormBody(named)).authorization_codes

(* no client is registered; an unexpired code minted for client1 is exchanged
   by a request naming the client other with the secret wrong, and by a
   request naming no client *)
C28_AnyClient ==
    \E c \in DOMAIN authorization_codes :
        /\ RegisteredPairs = {}
        /\ authorization_codes[c].client_id = "client1"
        /\ ~Expired(c)
        /\ pc["t1"] = "token_body"
        /\ Succeeds(token_request(FormBody(WithClient(Corrected(c), "other", "wrong"))))
        /\ Succeeds(token_request(FormBody(Corrected(c))))

----------------------------------------------------------------------------
(* verify_bearer_token turns the issued access token a away *)
TurnedAway(a) == verify_bearer_token(Bearer(a)).user_id = None

(* C29: the rejection of an issued opaque access token is permanent: once
   verify_bearer_token fails for an access token that the token endpoint
   issued, as it does from the token's expiry on, it fails for the same token
   string after every further step, whatever is authorized, exchanged,
   refreshed or verified in between. *)
C29_Permanent ==
    [][\A a \in AccessTokens : TurnedAway(a) => TurnedAway(a)']_vars

(* an access token was turned away and deleted at its expiry, a refresh has
   issued another one since, and the first is still turned away while the
   second verifies *)
C29_StillRejected ==
    \E a, b \in AccessTokens :
        /\ ledger[a].fate = "expired" /\ a \notin DOMAIN access_tokens
        /\ b \in DOMAIN access_tokens /\ ledger[b].source \in DOMAIN refresh_tokens
        /\ ledger[b].at >= TOKEN_EXPIRY_SECONDS
        /\ TurnedAway(a) /\ ~TurnedAway(b)

----------------------------------------------------------------------------
(* C30: the expiry boundary differs by record type.  At the instant
   now = expires_at an authorization code and a refresh token are still
   valid, being expired only when expires_at < now, whereas an access token is
   already turned away and deleted, being valid only when expires_at > now. *)
C30_Boundary ==
    /\ \A c \in DOMAIN authorization_codes :
          LET result == token_endpoint(Corrected(c)) IN
          IF authorization_codes[c].expires_at >= now
          THEN Succeeds(result) /\ c \notin DOMAIN result.authorization_codes
          ELSE Rejected(result, c)
    /\ \A r \in DOMAIN refresh_tokens :
          LET result == token_endpoint(RefreshData(r)) IN
          IF refresh_tokens[r].expires_at >= now
          THEN Succeeds(result) /\ result.refresh_tokens = refresh_tokens
          ELSE /\ Fails(result, "invalid_grant", "refresh_token_expired")
               /\ result.refresh_tokens = Del(refresh_tokens, r)
    /\ \A a \in DOMAIN access_tokens :
          LET verified == verify_bearer_token(Bearer(a)) IN
          IF access_tokens[a].expires_at > now
          THEN /\ verified.user_id = access_tokens[a].user_id
               /\ verified.access_tokens = access_tokens
          ELSE /\ verified.user_id = None
               /\ verified.access_tokens = Del(access_tokens, a)

(* at one instant a code, a refresh token and an access token all reach their
   expires_at: the code is exchanged and the refresh token refreshes, the
   access token is turned away and deleted *)
C30_AtExpiry ==
    \E c \in DOMAIN authorization_codes, r \in DOMAIN refresh_tokens,
       a \in DOMAIN access_tokens :
        /\ authorization_codes[c].expires_at = now
        /\ refresh_tokens[r].expires_at = now
        /\ access_tokens[a].expires_at = now
        /\ Succeeds(token_endpoint(Corrected(c)))
        /\ Succeeds(token_endpoint(RefreshData(r)))
        /\ verify_bearer_token(Bearer(a)).user_id = None
        /\ a \notin DOMAIN verify_bearer_token(Bearer(a)).access_tokens

----------------------------------------------------------------------------
(* the redirect_uri values a token request supplies *)
SuppliedUris ==
    {CLAUDE_CALLBACK_URL, CLAUDE_CALLBACK_URL \o "/x", "https://evil.example/cb"}

(* the request got past the redirect_uri check of lines 264-266 *)
PassesMatch(result) ==
    ~(result.response.status = 400 /\ result.response.reason = "redirect_uri_mismatch")

(* C31: in every reachable state every record of the authorization-code store
   has redirect_uri equal to the configured callback URL, so at exchange time
   a supplied redirect_uri passes the match check if and only if it equals
   that callback URL. *)
C31_StoredCallback ==
    \A c \in DOMAIN authorization_codes :
        /\ authorization_codes[c].redirect_uri = CLAUDE_CALLBACK_URL
        /\ \A redirect_uri \in SuppliedUris, code_verifier \in {"", "v1", "v2"} :
              LET d == ExchangeData(c, redirect_uri, code_verifier) IN
              /\ PassesMatch(token_endpoint(d)) <=> redirect_uri = CLAUDE_CALLBACK_URL
              /\ PassesMatch(token_request(FormBody(d))) <=> redirect_uri = CLAUDE_CALLBACK_URL
              /\ PassesMatch(token_request(JsonBody(d))) <=> redirect_uri = CLAUDE_CALLBACK_URL

(* two codes are stored, and for each the exchange with the callback URL
   succeeds while the one with a longer redirect_uri is turned away; a request
   to /authorize with that longer redirect_uri mints nothing *)
C31_OnlyCallback ==
    /\ Cardinality(DOMAIN authorization_codes) = 2
    /\ pc["t1"] = "token_body"
    /\ \A c \in DOMAIN authorization_codes :
          /\ Succeeds(token_endpoint(Corrected(c)))
          /\ Refused(token_endpoint(ExchangeData(c, CLAUDE_CALLBACK_URL \o "/x", "v1")),
                     "redirect_uri_mismatch")
    /\ authorize("code", "claude", CLAUDE_CALLBACK_URL \o "/x", "xyz", "", <<>>, "",
                 "user_a").response.error = "invalid_redirect_uri"

=============================================================================
